---- MODULE Spec2Model ----
(***************************************************************************)
(* A model of DotFileCommander (dfc): content hashing, storage routing,    *)
(* the version manifest, the conflict analyzer, and the backup / restore   *)
(* workflows driven by the terminal UI's message handlers.                 *)
(*                                                                         *)
(* Conventions                                                             *)
(*  - a byte string is a sequence of byte values (ASCII codes);            *)
(*  - a filesystem path is a sequence of path segments (strings), so that  *)
(*    "shared/~/f" is <<"shared", "~", "f">>; "/" as first segment marks   *)
(*    an absolute path;                                                    *)
(*  - a content hash is a byte-string-like sequence: NoHash (the empty Go  *)
(*    string) or Sha256(stream).  SHA-256 is taken to be collision free:   *)
(*    the digest is the input stream behind a 0 tag.                       *)
(***************************************************************************)
EXTENDS Integers, Sequences, FiniteSets, TLC

VARIABLES
    cfg,        \* config.Config: [Entries, DeviceProfile]
    fs,         \* the local filesystem: entry path -> node
    repo,       \* the local clone: [mf, files, dirty, behind]
    remote,     \* the git remote the clone tracks: [mf, files]
    ui,         \* ui.Model: the fields the backup and restore views use
    syncs,      \* EnsureRepo commands in flight, per message they end in
    batches,    \* the engine runs: channel -> run (goroutine and channel state)
    msgs,       \* progress messages received from a channel, not yet handled
    results,    \* the []ConflictResult of the current state, <<>> if not computed
    restoredOk  \* history: paths restored and book-kept, untouched since

vars == <<cfg, fs, repo, remote, ui, syncs, batches, msgs, results, restoredOk>>

(***************************************************************************)
(* Bounds of the model.                                                    *)
(***************************************************************************)
MaxVersion == 2
\* engine runs (and syncs that may start one) in flight at a time
MaxBatches == 1

(***************************************************************************)
(* Byte strings, hashes.                                                   *)
(***************************************************************************)
NoHash == <<>>

\* crypto/sha256 + hex: injective on the byte stream fed to it, never empty.
Sha256(stream) == <<0>> \o stream

ByteA == <<97>>
ByteB == <<98>>

\* "." as filepath.Rel(path, path) returns it
DotName == <<46>>

RECURSIVE LexLess(_, _)
\* Go's string < on byte strings (sort.Strings)
LexLess(a, b) ==
    IF a = <<>> THEN b # <<>>
    ELSE IF b = <<>> THEN FALSE
    ELSE IF a[1] # b[1] THEN a[1] < b[1]
    ELSE LexLess(Tail(a), Tail(b))

RECURSIVE SortNames(_)
\* sort.Strings(files): the names of S in increasing order
SortNames(S) ==
    IF S = {} THEN <<>>
    ELSE LET m == CHOOSE x \in S : \A y \in S \ {x} : LexLess(x, y)
         IN  <<m>> \o SortNames(S \ {m})

(***************************************************************************)
(* Filesystem nodes.  A node is what sits at an entry's path:              *)
(*   kind "none": nothing there; "file": a regular file with bytes data;   *)
(*   "dir": a directory tree, files = the set of its non-directory         *)
(*   members [name, typ, data, ok] (name = path relative to the root,      *)
(*   typ in {"reg", "symlink", "special"}, data = bytes or link target,    *)
(*   ok = the member can be opened / read).  ok on the node itself: the    *)
(*   file can be opened, or the directory can be listed.                   *)
(***************************************************************************)
NoNode == [kind |-> "none", data |-> <<>>, files |-> {}, ok |-> TRUE]
FileNode(d) == [kind |-> "file", data |-> d, files |-> {}, ok |-> TRUE]
DirNode(fset) == [kind |-> "dir", data |-> <<>>, files |-> fset, ok |-> TRUE]
Reg(n, d) == [name |-> n, typ |-> "reg", data |-> d, ok |-> TRUE]

RECURSIVE FeedFiles(_, _)
\* the loop over the sorted regular files: the relative path is written
\* first, then the content unless the open or the read fails
FeedFiles(names, fset) ==
    IF names = <<>> THEN <<>>
    ELSE LET f == CHOOSE x \in fset : x.name = Head(names)
         IN  Head(names) \o (IF f.ok THEN f.data ELSE <<>>)
                \o FeedFiles(Tail(names), fset)

SymlinkMarker == <<115, 121, 109, 108, 105, 110, 107, 58>>

RECURSIVE FeedSymlinks(_, _)
\* the loop over the sorted symlinks: "symlink:" + rel, then the target
FeedSymlinks(names, fset) ==
    IF names = <<>> THEN <<>>
    ELSE LET f == CHOOSE x \in fset : x.name = Head(names)
         IN  SymlinkMarker \o Head(names) \o (IF f.ok THEN f.data ELSE <<>>)
                \o FeedSymlinks(Tail(names), fset)

\* what WalkDir collects: (regular files, symlinks); a root that is missing
\* or cannot be listed yields nothing (the callback returns nil on error)
WalkedFiles(node) ==
    IF node.kind = "dir" /\ node.ok
    THEN {f \in node.files : f.typ = "reg"}
    ELSE IF node.kind = "file"
    THEN {[name |-> DotName, typ |-> "reg", data |-> node.data, ok |-> node.ok]}
    ELSE {}

WalkedSymlinks(node) ==
    IF node.kind = "dir" /\ node.ok
    THEN {f \in node.files : f.typ = "symlink"}
    ELSE {}

\* hash.HashFile: [err, hash]
HashFile(node) ==
    IF node.kind = "file" /\ node.ok
    THEN [err |-> FALSE, hash |-> Sha256(node.data)]
    ELSE [err |-> TRUE, hash |-> NoHash]

\* hash.HashDir: [err, hash]; the walk callback swallows every error, so
\* the walk never fails and a missing root hashes like an empty tree
HashDir(node) ==
    LET regs == WalkedFiles(node)
        syms == WalkedSymlinks(node)
    IN  [err |-> FALSE,
         hash |-> Sha256(FeedFiles(SortNames({f.name : f \in regs}), regs)
                    \o FeedSymlinks(SortNames({f.name : f \in syms}), syms))]

\* hash.HashEntry on the node at the entry's expanded path
HashEntry(e, node) == IF e.IsDir THEN HashDir(node) ELSE HashFile(node)

(***************************************************************************)
(* Paths and the storage router (package storage).                         *)
(***************************************************************************)
Home == <<"/", "home">>

RECURSIVE CleanAcc(_, _)
\* filepath.Clean on segments: "." is dropped, ".." removes the segment
\* before it (at the root it is dropped, at the start of a relative path
\* it is kept)
CleanAcc(acc, rest) ==
    IF rest = <<>> THEN acc
    ELSE LET s == Head(rest)
         IN  IF s = "." THEN CleanAcc(acc, Tail(rest))
             ELSE IF s = ".."
             THEN IF acc # <<>> /\ acc[Len(acc)] \notin {"..", "/"}
                  THEN CleanAcc(SubSeq(acc, 1, Len(acc) - 1), Tail(rest))
                  ELSE IF acc # <<>> /\ acc[Len(acc)] = "/"
                  THEN CleanAcc(acc, Tail(rest))
                  ELSE CleanAcc(Append(acc, ".."), Tail(rest))
             ELSE CleanAcc(Append(acc, s), Tail(rest))

\* filepath.Join(a, b): the concatenation, cleaned
Join(a, b) == CleanAcc(<<>>, a \o b)

IsAbs(p) == p # <<>> /\ p[1] = "/"

\* expandHome: the "~/" prefix is replaced by the home directory
expandHome(path) ==
    IF Len(path) >= 2 /\ path[1] = "~" THEN Join(Home, Tail(path)) ELSE path

RECURSIVE CommonLen(_, _)
CommonLen(a, b) ==
    IF a = <<>> \/ b = <<>> \/ a[1] # b[1] THEN 0
    ELSE 1 + CommonLen(Tail(a), Tail(b))

\* filepath.Rel(base, targ) for absolute, cleaned paths
Rel(base, targ) ==
    LET n == CommonLen(base, targ)
        r == [i \in 1..(Len(base) - n) |-> ".."] \o SubSeq(targ, n + 1, Len(targ))
    IN  IF r = <<>> THEN <<".">> ELSE r

\* homeRelative: the path relative to the home directory; filepath.Rel
\* fails on a relative path and the base name is used instead
homeRelative(path) ==
    LET p == expandHome(path)
    IN  IF IsAbs(p) THEN Rel(Home, CleanAcc(<<>>, p)) ELSE <<p[Len(p)]>>

\* strings.ToLower on the profile names of the model
ToLower(s) == IF s = "Work" THEN "work" ELSE s

\* storage.RepoDir
RepoDir(entry, profile) ==
    IF entry.ProfileSpecific /\ profile # ""
    THEN Join(<<"profiles", ToLower(profile)>>, homeRelative(entry.Path))
    ELSE Join(<<"shared">>, homeRelative(entry.Path))

\* storage.ManifestKey: plain string concatenation with the entry's path
ManifestKey(entry, profile) ==
    IF entry.ProfileSpecific /\ profile # ""
    THEN <<"profiles", ToLower(profile)>> \o entry.Path
    ELSE <<"shared">> \o entry.Path

\* storage.LegacyRepoDir, storage.LegacyManifestKey
LegacyRepoDir(entry) == homeRelative(entry.Path)
LegacyManifestKey(entry) == entry.Path

(***************************************************************************)
(* The version manifest (package manifest): a map key -> EntryVersion.     *)
(* A Go map lookup of an absent key yields the zero value.                 *)
(***************************************************************************)
ZeroEntryVersion == [Version |-> 0, ContentHash |-> NoHash]

GetEntry(mf, key) == IF key \in DOMAIN mf THEN mf[key] ELSE ZeroEntryVersion

GetVersion(mf, key) == GetEntry(mf, key).Version

\* m.Entries[key] = ev
PutEntry(mf, key, ev) ==
    [k \in DOMAIN mf \cup {key} |-> IF k = key THEN ev ELSE mf[k]]

\* Manifest.BumpVersion: the version is incremented and the hash overwritten
BumpVersion(mf, key, contentHash) ==
    PutEntry(mf, key, [Version |-> GetEntry(mf, key).Version + 1,
                       ContentHash |-> contentHash])

EmptyManifest == [k \in {} |-> ZeroEntryVersion]

(***************************************************************************)
(* The conflict analyzer (package restore, CheckConflicts).                *)
(***************************************************************************)
StateClean == "clean"
StateNewerInRepo == "newer in repo"
StateModifiedLocal == "modified locally"
StateConflict == "conflict"

\* Classify with the two local_modified outcomes exchanged
ClassifySwapped(e, mv, node) ==
    LET h == HashEntry(e, node)
        localHash == h.hash
        repoHash == mv.ContentHash
        repoNewer == mv.Version > e.LocalVersion
        localModified == localHash # e.LastHash
    IN  IF h.err THEN StateClean
        ELSE IF e.LastHash = NoHash
        THEN IF repoHash # NoHash /\ localHash # repoHash
             THEN (IF repoNewer THEN StateConflict ELSE StateModifiedLocal)
             ELSE StateClean
        ELSE IF ~localModified /\ ~repoNewer THEN StateClean
        ELSE IF ~localModified /\ repoNewer
        THEN (IF repoHash # NoHash /\ localHash # repoHash
              THEN StateNewerInRepo ELSE StateClean)
        ELSE IF localModified /\ ~repoNewer THEN StateConflict
        ELSE StateModifiedLocal

\* Classify without the content comparison behind a newer repo version
ClassifyNoContentCheck(e, mv, node) ==
    LET h == HashEntry(e, node)
        localHash == h.hash
        repoHash == mv.ContentHash
        repoNewer == mv.Version > e.LocalVersion
        localModified == localHash # e.LastHash
    IN  IF h.err THEN StateClean
        ELSE IF e.LastHash = NoHash
        THEN IF repoHash # NoHash /\ localHash # repoHash
             THEN (IF repoNewer THEN StateConflict ELSE StateModifiedLocal)
             ELSE StateClean
        ELSE IF ~localModified /\ ~repoNewer THEN StateClean
        ELSE IF ~localModified /\ repoNewer THEN StateNewerInRepo
        ELSE IF localModified /\ ~repoNewer THEN StateModifiedLocal
        ELSE StateConflict

\* Classify treating every entry without a remembered hash as Clean
ClassifyFirstTimeClean(e, mv, node) ==
    LET h == HashEntry(e, node)
        localHash == h.hash
        repoHash == mv.ContentHash
        repoNewer == mv.Version > e.LocalVersion
        localModified == localHash # e.LastHash
    IN  IF h.err THEN StateClean
        ELSE IF e.LastHash = NoHash THEN StateClean
        ELSE IF ~localModified /\ ~repoNewer THEN StateClean
        ELSE IF ~localModified /\ repoNewer
        THEN (IF repoHash # NoHash /\ localHash # repoHash
              THEN StateNewerInRepo ELSE StateClean)
        ELSE IF localModified /\ ~repoNewer THEN StateModifiedLocal
        ELSE StateConflict

\* the body of CheckConflicts' loop from the local hash on, for entry e,
\* the manifest record mv it looked up and the node at e's path
Classify(e, mv, node) ==
    LET h == HashEntry(e, node)
        localHash == h.hash
        repoHash == mv.ContentHash
        repoNewer == mv.Version > e.LocalVersion
        localModified == localHash # e.LastHash
    IN  IF h.err THEN StateClean
        ELSE IF e.LastHash = NoHash
        THEN IF repoHash # NoHash /\ localHash # repoHash
             THEN (IF repoNewer THEN StateConflict ELSE StateModifiedLocal)
             ELSE StateClean
        ELSE IF ~localModified /\ ~repoNewer THEN StateClean
        ELSE IF ~localModified /\ repoNewer
        THEN (IF repoHash # NoHash /\ localHash # repoHash
              THEN StateNewerInRepo ELSE StateClean)
        ELSE IF localModified /\ ~repoNewer THEN StateModifiedLocal
        ELSE StateConflict

\* the manifest record CheckConflicts reads for an entry: mf.GetEntry(e.Path)
AnalyzerRecord(e, mf) == GetEntry(mf, e.Path)

\* one ConflictResult
CheckOne(e, mf, node) ==
    LET mv == AnalyzerRecord(e, mf)
        h == HashEntry(e, node)
    IN  [Entry |-> e,
         State |-> Classify(e, mv, node),
         LocalHash |-> IF h.err THEN NoHash ELSE h.hash,
         RepoHash |-> mv.ContentHash]

\* variant of CheckConflicts: entries whose local content cannot be hashed
\* get no result
CheckConflictsHashable(entries, mf, files) ==
    LET one(e) == CheckOne(e, mf, files[e.Path])
    IN  SelectSeq([i \in 1..Len(entries) |-> one(entries[i])],
                  LAMBDA r : r.LocalHash # NoHash)

\* CheckConflicts(entries, mf): one result per entry, in order
CheckConflicts(entries, mf, files) ==
    [i \in 1..Len(entries) |-> CheckOne(entries[i], mf, files[entries[i].Path])]

(***************************************************************************)
(* The copy primitives of the backup and restore engines.  A copy yields   *)
(* [err, node, skipped, copied]: node is what sits at the destination      *)
(* afterwards.                                                             *)
(***************************************************************************)
\* a destination file that belongs to another user and is writable by this
\* one: it can be opened for writing, its mode cannot be set
Foreign(n, d) ==
    [name |-> n, typ |-> "reg", data |-> d, ok |-> TRUE, foreign |-> TRUE]
IsForeign(f) == "foreign" \in DOMAIN f /\ f.foreign

\* what os.Create, io.Copy put at a destination that held `old`
Written(old, d) == IF IsForeign(old) THEN [old EXCEPT !.data = d] ELSE FileNode(d)

\* copyFile(src, dst): stat and open of the source, then create and write,
\* then out.Chmod, whose error is the function's result
CopyFile(src, dst) ==
    IF src.kind = "file" /\ src.ok /\ dst.kind # "dir"
    THEN [err |-> IsForeign(dst), node |-> Written(dst, src.data),
          skipped |-> 0, copied |-> 1, reasons |-> <<>>]
    ELSE [err |-> TRUE, node |-> dst, skipped |-> 0, copied |-> 0, reasons |-> <<>>]

\* variant of Copyable: a walk that skips symlinks like special files
CopyableNoLinks(f) == f.typ = "reg" /\ f.ok

\* the members of a tree the walk copies: readable regular files and
\* readable symlinks; everything else is skipped
Copyable(f) == f.typ \in {"reg", "symlink"} /\ f.ok

RECURSIVE WalkCopy(_, _, _)
\* the walk function of copyDir on the members `names` of the source, in
\* the walk's order; acc is [err, files, skipped, copied, reasons] so far,
\* files being the destination directory. A member that cannot be copied
\* is skipped (the restore engine records a reason with its name); a
\* regular file is written over what is there and counted, and the error of
\* out.Chmod ends the walk
WalkCopy(names, srcFiles, acc) ==
    IF names = <<>> \/ acc.err THEN acc
    ELSE LET f == CHOOSE x \in srcFiles : x.name = Head(names)
             old == {g \in acc.files : g.name = f.name}
             chmodErr == \E g \in old : IsForeign(g)
             written == IF chmodErr THEN Foreign(f.name, f.data) ELSE f
         IN  IF ~Copyable(f)
             THEN WalkCopy(Tail(names), srcFiles,
                           [acc EXCEPT !.skipped = @ + 1,
                                       !.reasons = Append(@, f.name)])
             ELSE IF f.typ = "symlink"
             THEN WalkCopy(Tail(names), srcFiles,
                           [acc EXCEPT !.files = (@ \ old) \cup {f}])
             ELSE WalkCopy(Tail(names), srcFiles,
                           [acc EXCEPT !.files = (@ \ old) \cup {written},
                                       !.copied = @ + 1,
                                       !.err = chmodErr])

\* copyDir(src, dst): the walk creates the destination directory, copies
\* member by member over what is there and never removes anything; a
\* source root that is missing or cannot be listed counts as one skip; a
\* source root that is a file is visited as the only member
CopyDir(src, dst) ==
    IF src.kind = "none"
    THEN [err |-> FALSE, node |-> dst, skipped |-> 1, copied |-> 0,
          reasons |-> <<DotName>>]
    ELSE IF src.kind = "file"
    THEN IF src.ok /\ dst.kind # "dir"
         THEN CopyFile(src, dst)
         ELSE [err |-> FALSE, node |-> dst, skipped |-> 1, copied |-> 0,
               reasons |-> <<DotName>>]
    ELSE IF dst.kind = "file"
    THEN [err |-> TRUE, node |-> dst, skipped |-> 0, copied |-> 0, reasons |-> <<>>]
    ELSE IF ~src.ok
    THEN [err |-> FALSE,
          node |-> IF dst.kind = "none" THEN DirNode({}) ELSE dst,
          skipped |-> 1, copied |-> 0, reasons |-> <<DotName>>]
    ELSE LET w == WalkCopy(SortNames({f.name : f \in src.files}), src.files,
                           [err |-> FALSE, files |-> dst.files, skipped |-> 0,
                            copied |-> 0, reasons |-> <<>>])
         IN  [err |-> w.err, node |-> DirNode(w.files), skipped |-> w.skipped,
              copied |-> w.copied, reasons |-> w.reasons]

\* the copy of one entry, as both engines' Run dispatch it
CopyEntry(e, src, dst) == IF e.IsDir THEN CopyDir(src, dst) ELSE CopyFile(src, dst)

\* variant of BackupProgress that numbers every event 0
BackupProgressIndexZero(e, index, src, dst) ==
    LET c == CopyEntry(e, src, dst)
        h == HashEntry(e, src)
    IN  [Entry |-> e, Index |-> 0, Done |-> TRUE, Err |-> c.err,
         ContentHash |-> IF ~c.err /\ ~h.err THEN h.hash ELSE NoHash,
         Skipped |-> c.skipped, Copied |-> c.copied,
         Warning |-> ~c.err /\ e.IsDir /\ c.copied = 0 /\ c.skipped > 0]

\* backup.Run's Progress for one entry, given the source node and the
\* destination node before the copy: the hash is that of the source. The
\* backup engine's Progress has no list of skip reasons
BackupProgress(e, index, src, dst) ==
    LET c == CopyEntry(e, src, dst)
        h == HashEntry(e, src)
    IN  [Entry |-> e, Index |-> index, Done |-> TRUE, Err |-> c.err,
         ContentHash |-> IF ~c.err /\ ~h.err THEN h.hash ELSE NoHash,
         Skipped |-> c.skipped, Copied |-> c.copied,
         Warning |-> ~c.err /\ e.IsDir /\ c.copied = 0 /\ c.skipped > 0]

\* restore.Run's Progress for one entry: skipFile appends a reason at
\* every skip; the restore engine's Progress counts no copied files
RestoreProgress(e, index, src, dst) ==
    LET c == CopyEntry(e, src, dst)
    IN  [Entry |-> e, Index |-> index, Done |-> TRUE, Err |-> c.err,
         Skipped |-> c.skipped, SkipReasons |-> c.reasons]

(***************************************************************************)
(* The local clone: [mf, files], files a function from repository-relative *)
(* directory to node (NoNode where nothing is stored).                     *)
(***************************************************************************)
NoFiles == [d \in {} |-> NoNode]

FileAt(files, dir) == IF dir \in DOMAIN files THEN files[dir] ELSE NoNode

PutFile(files, dir, node) ==
    [d \in DOMAIN files \cup {dir} |-> IF d = dir THEN node ELSE files[d]]

\* delete(m.Entries, key)
DeleteEntry(mf, key) == [k \in DOMAIN mf \ {key} |-> mf[k]]

RECURSIVE MigrateFrom(_, _, _, _)
\* storage.MigrateLegacyLayout's loop from entry i on; st = [mf, files,
\* migrated]
MigrateFrom(i, entries, profile, st) ==
    IF i > Len(entries) THEN st
    ELSE LET e == entries[i]
             legacyRel == LegacyRepoDir(e)
             newRel == RepoDir(e, profile)
             legacyKey == LegacyManifestKey(e)
             newKey == ManifestKey(e, profile)
         IN  IF FileAt(st.files, legacyRel).kind = "none"
             THEN MigrateFrom(i + 1, entries, profile, st)
             ELSE IF FileAt(st.files, newRel).kind # "none"
             THEN MigrateFrom(i + 1, entries, profile, st)
             ELSE MigrateFrom(i + 1, entries, profile,
                    [mf |-> IF legacyKey \in DOMAIN st.mf
                            THEN DeleteEntry(PutEntry(st.mf, newKey, st.mf[legacyKey]),
                                             legacyKey)
                            ELSE st.mf,
                     files |-> PutFile(PutFile(st.files, newRel,
                                               FileAt(st.files, legacyRel)),
                                       legacyRel, NoNode),
                     migrated |-> st.migrated + 1])

\* storage.MigrateLegacyLayout(cfg, mf) on the clone
MigrateLegacyLayout(c, r) ==
    MigrateFrom(1, c.Entries, c.DeviceProfile,
                [mf |-> r.mf, files |-> r.files, migrated |-> 0])

\* checkBackupConflicts: the paths of the entries whose manifest record
\* (under the routed key) differs from what this machine last synced
checkBackupConflicts(c, mf) ==
    {c.Entries[i].Path : i \in
        {j \in 1..Len(c.Entries) :
            LET e == c.Entries[j]
                mv == GetEntry(mf, ManifestKey(e, c.DeviceProfile))
            IN  /\ mv.Version # 0
                /\ \/ /\ e.LastHash # NoHash
                      /\ mv.ContentHash # NoHash
                      /\ mv.ContentHash # e.LastHash
                   \/ /\ mv.Version > e.LocalVersion
                      /\ e.LocalVersion > 0}}

\* needsProfile: a profile-specific entry is tracked and no profile is set
needsProfile(c) ==
    /\ c.DeviceProfile = ""
    /\ \E i \in 1..Len(c.Entries) : c.Entries[i].ProfileSpecific

(***************************************************************************)
(* ui.Model: the view shown and the fields of the backup and restore       *)
(* workflows.  Channels are numbered from 1, 0 is the nil channel;          *)
(* a number is used again once its run has ended and nothing refers to it. *)
(***************************************************************************)
viewMainMenu == "main menu"
viewEntryList == "entry list"
viewBackup == "backup"
viewRestore == "restore"
viewProfileEdit == "profile edit"

restoreStepSyncing == "syncing"
restoreStepEntries == "entries"
restoreStepRunning == "running"

InitialModel ==
    [currentView |-> viewMainMenu, profileReturn |-> viewMainMenu,
     errMsg |-> "", statusMsg |-> "",
     progressItems |-> <<>>, progressDone |-> FALSE,
     backupCh |-> 0, backupConflicts |-> {}, backupConfirmed |-> FALSE,
     restoreStep |-> restoreStepSyncing, restoreEntries |-> <<>>,
     restoreConfirmed |-> FALSE, restoreCh |-> 0]

NoSyncs == [backup |-> 0, presync |-> 0, restore |-> 0]

\* progressItem{name: name} for entry e, whose name is its path: nothing
\* reported yet
NewItem(e) ==
    [name |-> e.Path, done |-> FALSE, err |-> FALSE, contentHash |-> NoHash,
     skipped |-> 0, warning |-> FALSE]

\* the run a call of backup.Run / restore.Run starts: the entries and the
\* profile it was given, the entry it works on, the Progress it is trying
\* to send, whether it has closed its channel, and the receives
\* (waitFor...Progress commands) pending on the channel
NewBatch(kind, entries, profile) ==
    [kind |-> kind, entries |-> entries, profile |-> profile, idx |-> 1,
     pending |-> <<>>, closed |-> entries = <<>>, recv |-> 1]

\* a channel number not in use
NoBatch ==
    [kind |-> "none", entries |-> <<>>, profile |-> "", idx |-> 1,
     pending |-> <<>>, closed |-> TRUE, recv |-> 0]

\* the channel numbers the behaviour started with
Channels == DOMAIN batches

\* the run on channel b has ended and no receive, message or model field
\* refers to the channel
Reusable(b) ==
    /\ batches[b].closed /\ batches[b].pending = <<>> /\ batches[b].recv = 0
    /\ ui.backupCh # b /\ ui.restoreCh # b
    /\ \A m \in msgs : m.ch # b

FreeChannel == CHOOSE b \in Channels : Reusable(b)

\* config.Entry{}
ZeroEntry ==
    [Path |-> <<>>, IsDir |-> FALSE, ProfileSpecific |-> FALSE,
     LocalVersion |-> 0, LastHash |-> NoHash]

\* the message a receive on a closed channel is turned into:
\* backupProgressMsg{Done: true}, restoreProgressMsg{Done: true}
ClosedProgress(kind) ==
    IF kind = "restore"
    THEN [Entry |-> ZeroEntry, Index |-> 0, Done |-> TRUE, Err |-> FALSE,
          Skipped |-> 0, SkipReasons |-> <<>>]
    ELSE [Entry |-> ZeroEntry, Index |-> 0, Done |-> TRUE, Err |-> FALSE,
          ContentHash |-> NoHash, Skipped |-> 0, Copied |-> 0, Warning |-> FALSE]

\* no further run or sync may be requested (bound of the model)
RoomForBatch ==
    Cardinality({b \in Channels : ~Reusable(b)}) + syncs.backup + syncs.restore
        < Cardinality(Channels)

\* a run can start (bound of the model)
CanStart == \E b \in Channels : Reusable(b)

(***************************************************************************)
(* Sync transport (package sync) against the remote.                       *)
(***************************************************************************)
\* variant of CanPull: a pull that never reports diverged histories
CanPullAlways(r) == r.dirty \/ ~r.dirty

\* EnsureRepo can succeed unless unpushed work meets new remote commits
CanPull(r) == ~(r.dirty /\ r.behind)

\* the clone after a successful EnsureRepo (clone, or pull)
Pulled(r, rem) ==
    IF r.dirty THEN r
    ELSE [mf |-> rem.mf, files |-> rem.files, dirty |-> FALSE, behind |-> FALSE]

\* variant of CanPush: a push that overwrites whatever the remote holds
CanPushAlways(r) == r.behind \/ ~r.behind

\* CommitAndPush can succeed only on top of the remote's latest commit
CanPush(r) == ~r.behind

\* what the remote holds after a successful push of clone r
Pushed(r) == [mf |-> r.mf, files |-> r.files]

(***************************************************************************)
(* Inputs of the model: the entries, contents and manifests it ranges over.*)
(***************************************************************************)
PathFile == <<"~", "f">>
PathDir == <<"~", "d">>

Profiles == {"", "work"}

\* what may sit at a file entry's path / at a directory entry's path
FileNodes ==
    {NoNode, FileNode(ByteA), FileNode(ByteB),
     [kind |-> "file", data |-> ByteA, files |-> {}, ok |-> FALSE]}

DirNodes ==
    {NoNode, DirNode({}), DirNode({Reg(ByteA, ByteA)}), DirNode({Reg(ByteA, ByteB)}),
     DirNode({Reg(ByteA, ByteA), Reg(ByteB, ByteB)})}

NodesFor(isDir) == IF isDir THEN DirNodes ELSE FileNodes

\* the content hashes a backup of such a node can have recorded
HashesFor(isDir) ==
    {HashEntry([IsDir |-> isDir], n).hash :
        n \in {x \in NodesFor(isDir) : ~HashEntry([IsDir |-> isDir], x).err}}

\* a tracked entry as the configuration can hold it: a remembered hash
\* comes with a version (backup and restore set both together)
EntriesFor(isDir) ==
    {e \in [Path : {IF isDir THEN PathDir ELSE PathFile},
            IsDir : {isDir},
            ProfileSpecific : BOOLEAN,
            LocalVersion : 0..MaxVersion,
            LastHash : {NoHash} \cup HashesFor(isDir)] :
        e.LastHash # NoHash => e.LocalVersion >= 1}

\* the records a manifest written by BumpVersion can hold for such an entry
RecordsFor(isDir) ==
    [Version : 1..MaxVersion, ContentHash : {NoHash} \cup HashesFor(isDir)]

\* the manifests over a set of keys
ManifestsOver(keys, isDir) ==
    UNION {[ks -> RecordsFor(isDir)] : ks \in SUBSET keys}

(***************************************************************************)
(* SpecAnalyzer: the conflict analyzer applied to every entry, manifest    *)
(* and local content of the bounded input sets.                            *)
(***************************************************************************)
InitAnalyzer ==
    /\ \E isDir \in BOOLEAN :
       \E e \in EntriesFor(isDir) :
       \E profile \in Profiles :
       \E node \in NodesFor(isDir) :
       \E mf \in ManifestsOver({LegacyManifestKey(e), ManifestKey(e, profile)}, isDir) :
          /\ cfg = [Entries |-> <<e>>, DeviceProfile |-> profile]
          /\ fs = [p \in {e.Path} |-> node]
          /\ repo = [mf |-> mf, files |-> NoFiles, dirty |-> FALSE, behind |-> FALSE]
          /\ remote = [mf |-> mf, files |-> NoFiles]
    /\ ui = InitialModel
    /\ syncs = NoSyncs
    /\ batches = [b \in 1..MaxBatches |-> NoBatch]
    /\ msgs = {}
    /\ results = <<>>
    /\ restoredOk = {}

\* restore.CheckConflicts(entries, manifest) on the current state
Analyze ==
    /\ results = <<>>
    /\ results' = CheckConflicts(cfg.Entries, repo.mf, fs)
    /\ UNCHANGED <<cfg, fs, repo, remote, ui, syncs, batches, msgs, restoredOk>>

NextAnalyzer == Analyze

SpecAnalyzer == InitAnalyzer /\ [][NextAnalyzer]_vars

(***************************************************************************)
(* The backup workflow: main menu, profile editor, entry list, backup view *)
(* and the messages Update dispatches to them.                             *)
(*                                                                         *)
(* Spec starts from one tracked entry that was never synced, on a machine  *)
(* that has not cloned the repository yet.  The remote is empty or holds   *)
(* the path in the flat legacy layout; another device that tracks the path *)
(* as a shared entry may push to it.  The restore view is the subject of   *)
(* SpecRestore and is not entered in Spec.                                 *)
(***************************************************************************)
\* what this machine has at an entry's path when the path exists, and what
\* the other device has there
OwnNode(isDir) ==
    IF isDir THEN DirNode({Reg(ByteA, ByteA)}) ELSE FileNode(ByteA)

OtherNode(isDir) ==
    IF isDir THEN DirNode({Reg(ByteA, ByteA), Reg(ByteB, ByteB)}) ELSE FileNode(ByteB)

UINodes(isDir) == {NoNode, OwnNode(isDir)}

PathIsDir(path) == path = PathDir

\* an entry as "add entry" creates it: never synced
FreshEntry(isDir, ps) ==
    [Path |-> IF isDir THEN PathDir ELSE PathFile, IsDir |-> isDir,
     ProfileSpecific |-> ps, LocalVersion |-> 0, LastHash |-> NoHash]

EmptyRemote == [mf |-> EmptyManifest, files |-> NoFiles]

\* a remote last written by a version that stored entries at the
\* repository root (the flat layout MigrateLegacyLayout looks for)
LegacyRemote(e, node) ==
    [mf |-> PutEntry(EmptyManifest, LegacyManifestKey(e),
                     [Version |-> 1, ContentHash |-> HashEntry(e, node).hash]),
     files |-> PutFile(NoFiles, LegacyRepoDir(e), CopyEntry(e, node, NoNode).node)]

\* what a typed profile name can be
ProfileInputs == {" ", "Work"}

\* strings.TrimSpace on the inputs of the model
TrimSpace(s) == IF s = " " THEN "" ELSE s

Init ==
    /\ \E isDir \in BOOLEAN, ps \in BOOLEAN, profile \in Profiles :
       \E node \in UINodes(isDir) :
       \E rem \in {EmptyRemote, LegacyRemote(FreshEntry(isDir, ps), OtherNode(isDir))} :
          /\ cfg = [Entries |-> <<FreshEntry(isDir, ps)>>, DeviceProfile |-> profile]
          /\ fs = [p \in {FreshEntry(isDir, ps).Path} |-> node]
          /\ remote = rem
    /\ repo = [mf |-> EmptyManifest, files |-> NoFiles, dirty |-> FALSE, behind |-> TRUE]
    /\ ui = InitialModel
    /\ syncs = NoSyncs
    /\ batches = [b \in 1..MaxBatches |-> NoBatch]
    /\ msgs = {}
    /\ results = <<>>
    /\ restoredOk = {}

\* startBackup: the command that runs EnsureRepo and ends in repoSyncDoneMsg
startBackup(sy) == [sy EXCEPT !.backup = @ + 1]

\* initRestoreView's assignments (the command it returns is the caller's
\* to run)
initRestoreView(u) ==
    [u EXCEPT !.restoreStep = restoreStepSyncing, !.progressDone = FALSE,
              !.errMsg = "", !.statusMsg = "", !.progressItems = <<>>,
              !.restoreCh = 0, !.restoreEntries = <<>>]

\* updateMainMenu, enter on "Backup"
MenuBackup ==
    /\ ui.currentView = viewMainMenu
    /\ IF needsProfile(cfg)
       THEN /\ ui' = [ui EXCEPT !.profileReturn = viewBackup,
                                !.currentView = viewProfileEdit, !.errMsg = ""]
            /\ UNCHANGED syncs
       ELSE /\ RoomForBatch
            /\ ui' = [ui EXCEPT !.currentView = viewBackup]
            /\ syncs' = startBackup(syncs)
    /\ UNCHANGED <<cfg, fs, repo, remote, batches, msgs, results, restoredOk>>

\* updateMainMenu, enter on "Restore": the command initRestoreView returns
\* is not passed on
MenuRestore ==
    /\ ui.currentView = viewMainMenu
    /\ ui' = IF needsProfile(cfg)
             THEN [ui EXCEPT !.profileReturn = viewRestore,
                             !.currentView = viewProfileEdit, !.errMsg = ""]
             ELSE initRestoreView([ui EXCEPT !.currentView = viewRestore])
    /\ UNCHANGED <<cfg, fs, repo, remote, syncs, batches, msgs, results, restoredOk>>

\* updateRestoreView, esc / q while the view waits for its first sync
RestoreSyncingEsc ==
    /\ ui.currentView = viewRestore
    /\ ui.restoreStep = restoreStepSyncing
    /\ ui' = [ui EXCEPT !.currentView = viewMainMenu]
    /\ UNCHANGED <<cfg, fs, repo, remote, syncs, batches, msgs, results, restoredOk>>

\* updateMainMenu, enter on "Manage Entries"
MenuEntries ==
    /\ ui.currentView = viewMainMenu
    /\ ui' = [ui EXCEPT !.currentView = viewEntryList]
    /\ UNCHANGED <<cfg, fs, repo, remote, syncs, batches, msgs, results, restoredOk>>

\* updateMainMenu, enter on "Device Profile"
MenuProfile ==
    /\ ui.currentView = viewMainMenu
    /\ ui' = [ui EXCEPT !.profileReturn = viewMainMenu,
                        !.currentView = viewProfileEdit, !.errMsg = ""]
    /\ UNCHANGED <<cfg, fs, repo, remote, syncs, batches, msgs, results, restoredOk>>

\* updateProfileEdit, esc
ProfileEditEsc ==
    /\ ui.currentView = viewProfileEdit
    /\ ui' = [ui EXCEPT !.currentView = ui.profileReturn]
    /\ UNCHANGED <<cfg, fs, repo, remote, syncs, batches, msgs, results, restoredOk>>

\* updateProfileEdit, enter with `input` typed
ProfileEditEnter(input) ==
    LET profile == ToLower(TrimSpace(input))
    IN  /\ ui.currentView = viewProfileEdit
        /\ IF profile = ""
           THEN /\ ui' = [ui EXCEPT !.errMsg = "empty profile"]
                /\ UNCHANGED <<cfg, syncs, results>>
           ELSE /\ ui.profileReturn = viewBackup => RoomForBatch
                /\ cfg' = [cfg EXCEPT !.DeviceProfile = profile]
                /\ results' = <<>>
                /\ LET u == [ui EXCEPT !.errMsg = "", !.currentView = ui.profileReturn]
                   IN  ui' = IF ui.profileReturn = viewRestore
                             THEN initRestoreView(u) ELSE u
                /\ syncs' = IF ui.profileReturn = viewBackup
                            THEN startBackup(syncs) ELSE syncs
        /\ UNCHANGED <<fs, repo, remote, batches, msgs, restoredOk>>

\* updateEntryList, "p" on entry i: the profile-specific flag is flipped
EntryListToggleProfile(i) ==
    /\ ui.currentView = viewEntryList
    /\ i \in 1..Len(cfg.Entries)
    /\ cfg' = [cfg EXCEPT !.Entries[i].ProfileSpecific = ~@]
    /\ results' = <<>>
    /\ UNCHANGED <<fs, repo, remote, ui, syncs, batches, msgs, restoredOk>>

\* config.RemoveEntry
RemoveEntry(entries, i) ==
    SubSeq(entries, 1, i - 1) \o SubSeq(entries, i + 1, Len(entries))

\* updateEntryList, "d" on entry i
EntryListDelete(i) ==
    /\ ui.currentView = viewEntryList
    /\ i \in 1..Len(cfg.Entries)
    /\ cfg' = [cfg EXCEPT !.Entries = RemoveEntry(cfg.Entries, i)]
    /\ results' = <<>>
    /\ UNCHANGED <<fs, repo, remote, ui, syncs, batches, msgs, restoredOk>>

\* updateEntryList, esc / q
EntryListEsc ==
    /\ ui.currentView = viewEntryList
    /\ ui' = [ui EXCEPT !.currentView = viewMainMenu]
    /\ UNCHANGED <<cfg, fs, repo, remote, syncs, batches, msgs, results, restoredOk>>

\* runBackup's assignments: fresh progress items, the new run's channel
runBackup(u, c, ch) ==
    [u EXCEPT !.progressItems = [i \in 1..Len(c.Entries) |-> NewItem(c.Entries[i])],
              !.progressDone = FALSE, !.backupCh = ch]

\* repoSyncDoneMsg (dispatched in every view): the EnsureRepo of startBackup
\* has ended, with success (ok) or an error, and handleRepoSyncDone runs
HandleRepoSyncDone(ok) ==
    /\ syncs.backup > 0
    /\ ok => CanPull(repo)
    /\ syncs' = [syncs EXCEPT !.backup = @ - 1]
    /\ IF ~ok
       THEN /\ ui' = [ui EXCEPT !.errMsg = "sync failed", !.progressDone = TRUE]
            /\ UNCHANGED <<repo, batches, results>>
       ELSE LET r1 == Pulled(repo, remote)
                mig == MigrateLegacyLayout(cfg, r1)
                r2 == [r1 EXCEPT !.mf = IF mig.migrated > 0 THEN mig.mf ELSE r1.mf,
                                 !.files = mig.files,
                                 !.dirty = r1.dirty \/ mig.migrated > 0]
                conflicts == checkBackupConflicts(cfg, r2.mf)
            IN  /\ repo' = r2
                /\ results' = <<>>
                /\ IF conflicts # {} /\ ~ui.backupConfirmed
                   THEN /\ ui' = [ui EXCEPT !.backupConflicts = conflicts]
                        /\ UNCHANGED batches
                   ELSE /\ CanStart
                        /\ ui' = runBackup(ui, cfg, FreeChannel)
                        /\ batches' = [batches EXCEPT ![FreeChannel] =
                                NewBatch("backup", cfg.Entries, cfg.DeviceProfile)]
    /\ UNCHANGED <<cfg, fs, remote, msgs, restoredOk>>

\* updateBackupView, "y": back up despite the warning
BackupKeyY ==
    /\ ui.currentView = viewBackup
    /\ ui.backupConflicts # {} /\ ~ui.backupConfirmed
    /\ CanStart
    /\ ui' = runBackup([ui EXCEPT !.backupConfirmed = TRUE, !.backupConflicts = {}],
                       cfg, FreeChannel)
    /\ batches' = [batches EXCEPT ![FreeChannel] =
                      NewBatch("backup", cfg.Entries, cfg.DeviceProfile)]
    /\ UNCHANGED <<cfg, fs, repo, remote, syncs, msgs, results, restoredOk>>

\* what esc / q / enter do to the model once progressDone is set
LeaveBackupView(u) ==
    [u EXCEPT !.currentView = viewMainMenu, !.errMsg = "", !.statusMsg = "",
              !.backupCh = 0, !.backupConflicts = {}, !.backupConfirmed = FALSE]

\* updateBackupView, esc / q
BackupKeyEsc ==
    /\ ui.currentView = viewBackup
    /\ IF ui.backupConflicts # {} /\ ~ui.backupConfirmed
       THEN ui' = [ui EXCEPT !.currentView = viewMainMenu, !.backupConflicts = {},
                             !.backupConfirmed = FALSE, !.errMsg = ""]
       ELSE /\ ui.progressDone
            /\ ui' = LeaveBackupView(ui)
    /\ UNCHANGED <<cfg, fs, repo, remote, syncs, batches, msgs, results, restoredOk>>

\* updateBackupView, enter
BackupKeyEnter ==
    /\ ui.currentView = viewBackup
    /\ ui.progressDone
    /\ ui' = LeaveBackupView(ui)
    /\ UNCHANGED <<cfg, fs, repo, remote, syncs, batches, msgs, results, restoredOk>>

\* the node at an entry's expanded local path
LocalAt(files, path) == IF path \in DOMAIN files THEN files[path] ELSE NoNode

\* backup.Run's goroutine copies its next entry into the clone and hashes
\* the source
BackupWorkerCopy(b) ==
    /\ b \in Channels
    /\ batches[b].kind = "backup"
    /\ batches[b].idx <= Len(batches[b].entries)
    /\ batches[b].pending = <<>>
    /\ LET e == batches[b].entries[batches[b].idx]
           dir == RepoDir(e, batches[b].profile)
           src == LocalAt(fs, e.Path)
           dst == FileAt(repo.files, dir)
           c == CopyEntry(e, src, dst)
       IN  /\ repo' = [repo EXCEPT !.files = PutFile(repo.files, dir, c.node),
                                   !.dirty = repo.dirty \/ c.node # dst]
           /\ batches' = [batches EXCEPT ![b].pending =
                              <<BackupProgress(e, batches[b].idx - 1, src, dst)>>]
    /\ results' = <<>>
    /\ UNCHANGED <<cfg, fs, remote, ui, syncs, msgs, restoredOk>>

\* the goroutine's send meets a pending receive: the Progress becomes a
\* message for Update; after the last entry the channel is closed
WorkerSend(b) ==
    /\ b \in Channels
    /\ batches[b].pending # <<>>
    /\ batches[b].recv > 0
    /\ msgs' = msgs \cup {[kind |-> batches[b].kind, ch |-> b, p |-> batches[b].pending[1]]}
    /\ batches' = [batches EXCEPT ![b] =
                      IF batches[b].idx >= Len(batches[b].entries)
                      THEN [NoBatch EXCEPT !.kind = batches[b].kind,
                                           !.recv = batches[b].recv - 1]
                      ELSE [@ EXCEPT !.pending = <<>>, !.recv = @ - 1, !.idx = @ + 1]]
    /\ UNCHANGED <<cfg, fs, repo, remote, ui, syncs, results, restoredOk>>

\* a pending receive on a closed channel: waitFor...Progress returns a
\* message with only Done set
RecvClosed(b) ==
    /\ b \in Channels
    /\ batches[b].closed
    /\ batches[b].pending = <<>>
    /\ batches[b].recv > 0
    /\ msgs' = msgs \cup {[kind |-> batches[b].kind, ch |-> b, p |-> ClosedProgress(batches[b].kind)]}
    /\ batches' = [batches EXCEPT ![b].recv = @ - 1]
    /\ UNCHANGED <<cfg, fs, repo, remote, ui, syncs, results, restoredOk>>

\* the progress item a message overwrites
ItemsAfter(items, p) ==
    IF p.Index < Len(items)
    THEN [items EXCEPT ![p.Index + 1].done = p.Done, ![p.Index + 1].err = p.Err,
                       ![p.Index + 1].contentHash = p.ContentHash,
                       ![p.Index + 1].skipped = p.Skipped,
                       ![p.Index + 1].warning = p.Warning]
    ELSE items

AllDone(items) == \A i \in DOMAIN items : items[i].done

\* the value handleBackupProgress takes for `bumped`: BumpVersion changed
\* the record's version
Bumped(mf, key, contentHash) ==
    GetVersion(BumpVersion(mf, key, contentHash), key) # GetVersion(mf, key)

RECURSIVE BumpFrom(_, _, _, _)
\* handleBackupProgress's loop over the progress items from item i on;
\* st = [entries, mf, changed]
BumpFrom(i, items, profile, st) ==
    IF i > Len(items) THEN st
    ELSE IF items[i].done /\ ~items[i].err /\ i <= Len(st.entries)
    THEN LET mkey == ManifestKey(st.entries[i], profile)
             mf2 == BumpVersion(st.mf, mkey, items[i].contentHash)
         IN  BumpFrom(i + 1, items, profile,
                [entries |-> [st.entries EXCEPT
                                 ![i].LocalVersion = GetVersion(mf2, mkey),
                                 ![i].LastHash = items[i].contentHash],
                 mf |-> mf2,
                 changed |-> IF Bumped(st.mf, mkey, items[i].contentHash)
                             THEN st.changed + 1 ELSE st.changed])
    ELSE BumpFrom(i + 1, items, profile, st)

\* backupProgressMsg (dispatched in every view): handleBackupProgress; when
\* every item is done the manifest is bumped and saved, the configuration
\* saved and, if anything counted as changed, CommitAndPush runs (pushOk:
\* its outcome)
HandleBackupProgress(m, pushOk) ==
    /\ m \in msgs
    /\ m.kind = "backup"
    /\ msgs' = msgs \ {m}
    /\ LET items == ItemsAfter(ui.progressItems, m.p)
           fin == BumpFrom(1, items, cfg.DeviceProfile,
                           [entries |-> cfg.Entries, mf |-> repo.mf, changed |-> 0])
           r1 == [repo EXCEPT !.mf = fin.mf, !.dirty = repo.dirty \/ fin.mf # repo.mf]
       IN  IF AllDone(items)
           THEN /\ \A k \in DOMAIN fin.mf : fin.mf[k].Version <= MaxVersion
                /\ cfg' = [cfg EXCEPT !.Entries = fin.entries]
                /\ results' = <<>>
                /\ restoredOk' = restoredOk \
                       {cfg.Entries[i].Path : i \in
                           {j \in DOMAIN cfg.Entries : fin.entries[j] # cfg.Entries[j]}}
                /\ UNCHANGED batches
                /\ IF fin.changed > 0
                   THEN IF pushOk
                        THEN /\ CanPush(repo)
                             /\ repo' = [r1 EXCEPT !.dirty = FALSE]
                             /\ remote' = Pushed(r1)
                             /\ ui' = [ui EXCEPT !.progressItems = items,
                                                 !.progressDone = TRUE,
                                                 !.statusMsg = "updated"]
                        ELSE /\ repo' = r1
                             /\ UNCHANGED remote
                             /\ ui' = [ui EXCEPT !.progressItems = items,
                                                 !.progressDone = TRUE,
                                                 !.errMsg = "push failed"]
                   ELSE /\ pushOk
                        /\ repo' = r1
                        /\ UNCHANGED remote
                        /\ ui' = [ui EXCEPT !.progressItems = items,
                                            !.progressDone = TRUE,
                                            !.statusMsg = "up to date"]
           ELSE /\ pushOk
                /\ ui' = [ui EXCEPT !.progressItems = items]
                /\ batches' = IF ui.backupCh # 0
                              THEN [batches EXCEPT ![ui.backupCh].recv = @ + 1]
                              ELSE batches
                /\ UNCHANGED <<cfg, repo, remote, results, restoredOk>>
    /\ UNCHANGED <<fs, syncs>>

(***************************************************************************)
(* The environment: the user edits local content; another device pushes a  *)
(* backup of the same path to the remote.                                  *)
(***************************************************************************)
\* the environment acts while the tool shows its menu and has nothing in
\* flight
Idle ==
    /\ ui.currentView = viewMainMenu
    /\ syncs = NoSyncs
    /\ msgs = {}
    /\ \A b \in Channels : batches[b].closed /\ batches[b].pending = <<>>

LocalEdit(path, node) ==
    /\ Idle
    /\ path \in DOMAIN fs
    /\ node \in UINodes(PathIsDir(path))
    /\ node # fs[path]
    /\ fs' = [fs EXCEPT ![path] = node]
    /\ results' = <<>>
    /\ restoredOk' = restoredOk \ {path}
    /\ UNCHANGED <<cfg, repo, remote, ui, syncs, batches, msgs>>

\* the other device tracks the path as a shared entry and backs up what
\* it has there
OtherDevicePush(path) ==
    LET e == [FreshEntry(PathIsDir(path), FALSE) EXCEPT !.Path = path]
        node == OtherNode(PathIsDir(path))
        key == ManifestKey(e, "work")
        dir == RepoDir(e, "work")
        c == CopyEntry(e, node, FileAt(remote.files, dir))
    IN  /\ Idle
        /\ path \in DOMAIN fs
        /\ ~c.err
        /\ GetVersion(remote.mf, key) < MaxVersion
        /\ remote' = [mf |-> BumpVersion(remote.mf, key, HashEntry(e, node).hash),
                      files |-> PutFile(remote.files, dir, c.node)]
        /\ repo' = [repo EXCEPT !.behind = TRUE]
        /\ UNCHANGED <<cfg, fs, ui, syncs, batches, msgs, results, restoredOk>>

Next ==
    \/ MenuBackup
    \/ MenuEntries
    \/ MenuProfile
    \/ ProfileEditEsc
    \/ \E input \in ProfileInputs : ProfileEditEnter(input)
    \/ \E i \in 1..Len(cfg.Entries) : EntryListToggleProfile(i)
    \/ \E i \in 1..Len(cfg.Entries) : EntryListDelete(i)
    \/ EntryListEsc
    \/ \E ok \in BOOLEAN : HandleRepoSyncDone(ok)
    \/ BackupKeyY
    \/ BackupKeyEsc
    \/ BackupKeyEnter
    \/ \E b \in Channels : BackupWorkerCopy(b)
    \/ \E b \in Channels : WorkerSend(b)
    \/ \E b \in Channels : RecvClosed(b)
    \/ \E m \in msgs, pushOk \in BOOLEAN : HandleBackupProgress(m, pushOk)
    \/ \E path \in DOMAIN fs, node \in UINodes(TRUE) \cup UINodes(FALSE) :
          LocalEdit(path, node)
    \/ \E path \in DOMAIN fs : OtherDevicePush(path)

Spec == Init /\ [][Next]_vars

(***************************************************************************)
(* Claims about the backup workflow (checked under Spec).                  *)
(***************************************************************************)
\* this step starts a backup run (runBackup installs a new channel)
BackupStarts == ui'.backupCh # 0 /\ ui'.backupCh # ui.backupCh

\* C6: when a backup run starts after the repository refresh without the
\* user's confirmation, no tracked entry is in Conflict or NewerInRepo state
\* (the analyzer's classification against the record under the entry's
\* routed key in the refreshed clone).
C6_GateBeforeCopy ==
    [][(BackupStarts /\ ~ui'.backupConfirmed) =>
          \A i \in DOMAIN cfg'.Entries :
              LET e == cfg'.Entries[i]
                  st == Classify(e, GetEntry(repo'.mf, ManifestKey(e, cfg'.DeviceProfile)),
                                 LocalAt(fs', e.Path))
              IN  st \notin {StateConflict, StateNewerInRepo}]_vars

\* this step is handleBackupProgress completing a run
BackupCompletes ==
    /\ msgs' # msgs /\ msgs' \subseteq msgs
    /\ ui'.progressDone
    /\ AllDone(ui'.progressItems)

\* C8: when a backup completes for an entry whose content hash is the one
\* the manifest already records under its key (nothing changed since the
\* previous backup), the record's version is not bumped and nothing is
\* committed or pushed.
C8_NoOpBackup ==
    [][(/\ BackupCompletes
        /\ ui'.progressItems # <<>>
        /\ \A i \in DOMAIN ui'.progressItems :
              /\ i \in DOMAIN cfg.Entries
              /\ ~ui'.progressItems[i].err
              /\ ui'.progressItems[i].contentHash # NoHash
              /\ ui'.progressItems[i].contentHash =
                     GetEntry(repo.mf, ManifestKey(cfg.Entries[i], cfg.DeviceProfile)).ContentHash)
       => /\ \A i \in DOMAIN ui'.progressItems :
                 LET k == ManifestKey(cfg.Entries[i], cfg.DeviceProfile)
                 IN  GetVersion(repo'.mf, k) = GetVersion(repo.mf, k)
          /\ ui'.statusMsg = "up to date"
          /\ remote' = remote]_vars

\* C9: no engine run holds a batch with a profile-specific entry and an
\* empty device profile.
C9_ProfileGate ==
    \A b \in Channels :
        ~(/\ batches[b].profile = ""
          /\ \E i \in DOMAIN batches[b].entries : batches[b].entries[i].ProfileSpecific)

\* the manifest handleRepoSyncDone hands to checkBackupConflicts when the
\* refresh that is running succeeds now: the pulled manifest, migrated
AnalysisManifest ==
    LET r1 == Pulled(repo, remote)
        mig == MigrateLegacyLayout(cfg, r1)
    IN  IF mig.migrated > 0 THEN mig.mf ELSE r1.mf

\* C38: at every conflict analysis (here the one of the backup's refresh),
\* each entry's local_version is at most the version of the manifest record
\* under the entry's current storage key, whatever backups, profile-specific
\* toggles and device-profile changes came before.
C38_BaselineUnderCurrentKey ==
    (syncs.backup > 0 /\ CanPull(repo)) =>
        \A i \in DOMAIN cfg.Entries :
            cfg.Entries[i].LocalVersion
               <= GetVersion(AnalysisManifest,
                             ManifestKey(cfg.Entries[i], cfg.DeviceProfile))

\* C19: an entry whose source was missing or whose copy failed in a batch
\* gets no version bump in that batch (its manifest record is neither
\* created nor updated), and its local_version and last_known_hash are
\* left unchanged by that batch.
C19_FailedEntryNotBumped ==
    [][BackupCompletes =>
          \A i \in DOMAIN cfg.Entries :
              LET e == cfg.Entries[i]
                  key == ManifestKey(e, cfg.DeviceProfile)
              IN  (/\ i \in DOMAIN ui'.progressItems
                   /\ \/ LocalAt(fs, e.Path).kind = "none"
                      \/ ui'.progressItems[i].err)
                  => /\ GetEntry(repo'.mf, key) = GetEntry(repo.mf, key)
                     /\ cfg'.Entries[i] = e]_vars

(***************************************************************************)
(* SpecBackupPair: the backup view and the entry list of a machine that    *)
(* tracks a file and a directory, both present, over an empty remote.      *)
(***************************************************************************)
InitBackupPair ==
    /\ \E ps1 \in BOOLEAN, ps2 \in BOOLEAN :
          cfg = [Entries |-> <<FreshEntry(FALSE, ps1), FreshEntry(TRUE, ps2)>>,
                 DeviceProfile |-> "work"]
    /\ fs = [p \in {PathFile, PathDir} |-> OwnNode(PathIsDir(p))]
    /\ remote = EmptyRemote
    /\ repo = [mf |-> EmptyManifest, files |-> NoFiles, dirty |-> FALSE, behind |-> TRUE]
    /\ ui = InitialModel
    /\ syncs = NoSyncs
    /\ batches = [b \in 1..MaxBatches |-> NoBatch]
    /\ msgs = {}
    /\ results = <<>>
    /\ restoredOk = {}

NextBackupPair ==
    \/ MenuBackup
    \/ MenuEntries
    \/ \E i \in 1..Len(cfg.Entries) : EntryListToggleProfile(i)
    \/ \E i \in 1..Len(cfg.Entries) : EntryListDelete(i)
    \/ EntryListEsc
    \/ \E ok \in BOOLEAN : HandleRepoSyncDone(ok)
    \/ BackupKeyEsc
    \/ BackupKeyEnter
    \/ \E b \in Channels : BackupWorkerCopy(b)
    \/ \E b \in Channels : WorkerSend(b)
    \/ \E b \in Channels : RecvClosed(b)
    \/ \E m \in msgs, pushOk \in BOOLEAN : HandleBackupProgress(m, pushOk)

SpecBackupPair == InitBackupPair /\ [][NextBackupPair]_vars

(***************************************************************************)
(* SpecPersist: the backup view as in SpecBackupPair, with the outcome of  *)
(* mf.Save and m.cfg.Save at the end of a run made explicit.  A failed     *)
(* os.WriteFile leaves the manifest file as it was or truncated (a         *)
(* manifest that no longer loads reads as empty).  results holds the       *)
(* outcome [mf, cfg] of the two saves of the last completed run.  With one *)
(* channel and a fixed entry list no receive is ever left on a closed      *)
(* channel, so RecvClosed has no step here.                                *)
(***************************************************************************)
SaveOutcomes == {"saved", "kept", "lost"}

\* the manifest file after mf.Save(m.cfg.RepoPath) with the given outcome
ManifestSaved(old, new, outcome) ==
    IF outcome = "saved" THEN new
    ELSE IF outcome = "kept" THEN old
    ELSE EmptyManifest

\* handleBackupProgress with the results of the two saves, which it
\* discards (`_ = mf.Save(...)`, `_ = m.cfg.Save()`)
HandleBackupProgressSaving(m, pushOk, mfSave, cfgSaved) ==
    /\ m \in msgs
    /\ m.kind = "backup"
    /\ msgs' = msgs \ {m}
    /\ LET items == ItemsAfter(ui.progressItems, m.p)
           fin == BumpFrom(1, items, cfg.DeviceProfile,
                           [entries |-> cfg.Entries, mf |-> repo.mf, changed |-> 0])
           mf1 == ManifestSaved(repo.mf, fin.mf, mfSave)
           r1 == [repo EXCEPT !.mf = mf1, !.dirty = repo.dirty \/ mf1 # repo.mf]
       IN  IF AllDone(items)
           THEN /\ \A k \in DOMAIN fin.mf : fin.mf[k].Version <= MaxVersion
                /\ cfg' = [cfg EXCEPT !.Entries = fin.entries]
                /\ results' = <<[mf |-> mfSave, cfg |-> cfgSaved]>>
                /\ restoredOk' = restoredOk
                /\ UNCHANGED batches
                /\ IF fin.changed > 0
                   THEN IF pushOk
                        THEN /\ CanPush(repo)
                             /\ repo' = [r1 EXCEPT !.dirty = FALSE]
                             /\ remote' = Pushed(r1)
                             /\ ui' = [ui EXCEPT !.progressItems = items,
                                                 !.progressDone = TRUE,
                                                 !.statusMsg = "updated"]
                        ELSE /\ repo' = r1
                             /\ UNCHANGED remote
                             /\ ui' = [ui EXCEPT !.progressItems = items,
                                                 !.progressDone = TRUE,
                                                 !.errMsg = "push failed"]
                   ELSE /\ pushOk
                        /\ repo' = r1
                        /\ UNCHANGED remote
                        /\ ui' = [ui EXCEPT !.progressItems = items,
                                            !.progressDone = TRUE,
                                            !.statusMsg = "up to date"]
           ELSE /\ pushOk /\ mfSave = "saved" /\ cfgSaved
                /\ ui' = [ui EXCEPT !.progressItems = items]
                /\ batches' = IF ui.backupCh # 0
                              THEN [batches EXCEPT ![ui.backupCh].recv = @ + 1]
                              ELSE batches
                /\ UNCHANGED <<cfg, repo, remote, results, restoredOk>>
    /\ UNCHANGED <<fs, syncs>>

NextPersist ==
    \/ MenuBackup
    \/ \E ok \in BOOLEAN : HandleRepoSyncDone(ok)
    \/ BackupKeyEsc
    \/ BackupKeyEnter
    \/ \E b \in Channels : BackupWorkerCopy(b)
    \/ \E b \in Channels : WorkerSend(b)
    \/ \E m \in msgs, pushOk \in BOOLEAN, mfSave \in SaveOutcomes, cfgSaved \in BOOLEAN :
          HandleBackupProgressSaving(m, pushOk, mfSave, cfgSaved)

SpecPersist == InitBackupPair /\ [][NextPersist]_vars

\* this step completes a run whose manifest save or configuration save
\* failed
SaveFailed ==
    /\ BackupCompletes
    /\ results' # <<>>
    /\ results'[1].mf # "saved" \/ ~results'[1].cfg

\* C35: if saving the manifest or the local configuration fails when a
\* backup batch completes, the failure is reported to the user (an error
\* message is set by the step) and nothing is pushed.
C35_SaveFailureStopsBatch ==
    [][SaveFailed =>
          /\ ui'.errMsg # ui.errMsg /\ ui'.errMsg \notin {"", "push failed"}
          /\ remote' = remote
          /\ ui'.statusMsg = ui.statusMsg]_vars

\* the content hash of what sits at the path of a tracked entry
SourceHash(e) == HashEntry(e, LocalAt(fs, e.Path)).hash

\* C24: when a backup completes, every entry copied without a fatal error
\* has had the content hash of its source reported, and every manifest
\* record bumped for an entry stores exactly that, non-empty, hash.
C24_ReportedHashStored ==
    [][BackupCompletes =>
          /\ \A i \in DOMAIN ui'.progressItems :
                LET item == ui'.progressItems[i]
                    isDir == PathIsDir(item.name)
                IN  ~item.err =>
                       /\ item.contentHash # NoHash
                       /\ item.contentHash =
                             HashEntry([IsDir |-> isDir], LocalAt(fs, item.name)).hash
          /\ \A j \in DOMAIN cfg'.Entries :
                LET e == cfg'.Entries[j]
                    key == ManifestKey(e, cfg.DeviceProfile)
                IN  GetEntry(repo'.mf, key) # GetEntry(repo.mf, key)
                       => /\ GetEntry(repo'.mf, key).ContentHash = SourceHash(e)
                          /\ SourceHash(e) # NoHash]_vars

(***************************************************************************)
(* The restore workflow: the restore view's three steps and the messages   *)
(* Update dispatches to it.                                                *)
(***************************************************************************)
\* buildRestoreEntries: one item per configured entry, pre-selected when
\* its routed location exists in the clone, with the analyzer's state
buildRestoreEntries(c, r, files) ==
    [i \in 1..Len(c.Entries) |->
        LET e == c.Entries[i]
            inRepo == FileAt(r.files, RepoDir(e, c.DeviceProfile)).kind # "none"
        IN  [entry |-> e, selected |-> inRepo, inRepo |-> inRepo,
             conflict |-> CheckOne(e, r.mf, LocalAt(files, e.Path)).State]]

\* restorePreSyncDoneMsg: the EnsureRepo started by initRestoreView has
\* ended; only the restore view handles the message
HandleRestorePreSyncDone(ok) ==
    /\ syncs.presync > 0
    /\ ok => CanPull(repo)
    /\ syncs' = [syncs EXCEPT !.presync = @ - 1]
    /\ repo' = IF ok THEN Pulled(repo, remote) ELSE repo
    /\ results' = <<>>
    /\ restoredOk' = IF repo'.mf = repo.mf THEN restoredOk ELSE {}
    /\ ui' = IF ui.currentView = viewRestore
             THEN [ui EXCEPT !.errMsg = IF ok THEN @ ELSE "sync failed",
                             !.restoreEntries = buildRestoreEntries(cfg, repo', fs),
                             !.restoreStep = restoreStepEntries]
             ELSE ui
    /\ UNCHANGED <<cfg, fs, remote, batches, msgs>>

InEntriesStep == ui.currentView = viewRestore /\ ui.restoreStep = restoreStepEntries

\* updateRestoreEntries, space on item i
RestoreKeySpace(i) ==
    /\ InEntriesStep
    /\ i \in DOMAIN ui.restoreEntries
    /\ ui' = [ui EXCEPT !.restoreEntries[i].selected = ~@,
                        !.restoreConfirmed = FALSE, !.errMsg = ""]
    /\ UNCHANGED <<cfg, fs, repo, remote, syncs, batches, msgs, results, restoredOk>>

\* updateRestoreEntries, "a" (select all) and "n" (select none)
RestoreKeyAll(sel) ==
    /\ InEntriesStep
    /\ ui' = [ui EXCEPT !.restoreEntries =
                            [i \in DOMAIN ui.restoreEntries |->
                                [ui.restoreEntries[i] EXCEPT !.selected = sel]],
                        !.restoreConfirmed = FALSE, !.errMsg = ""]
    /\ ui' # ui
    /\ UNCHANGED <<cfg, fs, repo, remote, syncs, batches, msgs, results, restoredOk>>

\* startRestore: the command that runs EnsureRepo and ends in
\* restoreSyncDoneMsg
startRestore(sy) == [sy EXCEPT !.restore = @ + 1]

SelectedItems(u) == SelectSeq(u.restoreEntries, LAMBDA item : item.selected)

\* variant of RestoreKeyEnter: a non-empty selection starts the restore at
\* the first enter
RestoreKeyEnterNoConfirm ==
    /\ InEntriesStep
    /\ LET sel == SelectedItems(ui)
       IN  IF sel = <<>>
           THEN /\ ui' = [ui EXCEPT !.errMsg = "none selected"]
                /\ ui' # ui
                /\ UNCHANGED syncs
           ELSE /\ RoomForBatch
                /\ ui' = [ui EXCEPT !.errMsg = "", !.restoreConfirmed = FALSE,
                                    !.restoreStep = restoreStepRunning]
                /\ syncs' = startRestore(syncs)
    /\ UNCHANGED <<cfg, fs, repo, remote, batches, msgs, results, restoredOk>>

\* updateRestoreEntries, enter
RestoreKeyEnter ==
    /\ InEntriesStep
    /\ LET sel == SelectedItems(ui)
           hasConflicts ==
               \E i \in DOMAIN sel :
                   sel[i].conflict \in {StateModifiedLocal, StateConflict, StateNewerInRepo}
       IN  IF sel = <<>>
           THEN /\ ui' = [ui EXCEPT !.errMsg = "none selected"]
                /\ ui' # ui
                /\ UNCHANGED syncs
           ELSE IF hasConflicts /\ ~ui.restoreConfirmed
           THEN /\ ui' = [ui EXCEPT !.restoreConfirmed = TRUE, !.errMsg = "overwrite warning"]
                /\ UNCHANGED syncs
           ELSE /\ RoomForBatch
                /\ ui' = [ui EXCEPT !.errMsg = "", !.restoreConfirmed = FALSE,
                                    !.restoreStep = restoreStepRunning]
                /\ syncs' = startRestore(syncs)
    /\ UNCHANGED <<cfg, fs, repo, remote, batches, msgs, results, restoredOk>>

\* updateRestoreEntries, esc / q
RestoreKeyEsc ==
    /\ InEntriesStep
    /\ ui' = [ui EXCEPT !.restoreConfirmed = FALSE, !.currentView = viewMainMenu]
    /\ UNCHANGED <<cfg, fs, repo, remote, syncs, batches, msgs, results, restoredOk>>

\* the entries runRestore hands to restore.Run
SelectedEntries(u) ==
    LET sel == SelectedItems(u) IN [i \in DOMAIN sel |-> sel[i].entry]

\* restoreSyncDoneMsg (dispatched in every view): handleRestoreSyncDone,
\* which on success calls runRestore
HandleRestoreSyncDone(ok) ==
    /\ syncs.restore > 0
    /\ ok => CanPull(repo) /\ CanStart
    /\ syncs' = [syncs EXCEPT !.restore = @ - 1]
    /\ IF ~ok
       THEN /\ ui' = [ui EXCEPT !.errMsg = "sync failed", !.progressDone = TRUE]
            /\ UNCHANGED <<repo, batches, results, restoredOk>>
       ELSE /\ repo' = Pulled(repo, remote)
            /\ results' = <<>>
            /\ restoredOk' = IF repo'.mf = repo.mf THEN restoredOk ELSE {}
            /\ ui' = [ui EXCEPT !.progressItems =
                                    [i \in DOMAIN SelectedEntries(ui) |->
                                        NewItem(SelectedEntries(ui)[i])],
                                !.progressDone = FALSE,
                                !.restoreCh = FreeChannel]
            /\ batches' = [batches EXCEPT ![FreeChannel] =
                              NewBatch("restore", SelectedEntries(ui), cfg.DeviceProfile)]
    /\ UNCHANGED <<cfg, fs, remote, msgs>>

\* restore.Run's goroutine copies its next entry from the clone to the
\* local path
RestoreWorkerCopy(b) ==
    /\ b \in Channels
    /\ batches[b].kind = "restore"
    /\ batches[b].idx <= Len(batches[b].entries)
    /\ batches[b].pending = <<>>
    /\ LET e == batches[b].entries[batches[b].idx]
           src == FileAt(repo.files, RepoDir(e, batches[b].profile))
           dst == LocalAt(fs, e.Path)
           c == CopyEntry(e, src, dst)
       IN  /\ fs' = [p \in DOMAIN fs \cup {e.Path} |-> IF p = e.Path THEN c.node ELSE fs[p]]
           /\ restoredOk' = IF c.node = dst THEN restoredOk ELSE restoredOk \ {e.Path}
           /\ batches' = [batches EXCEPT ![b].pending =
                              <<RestoreProgress(e, batches[b].idx - 1, src, dst)>>]
    /\ results' = <<>>
    /\ UNCHANGED <<cfg, repo, remote, ui, syncs, msgs>>

\* the progress item a restore message overwrites (hash and warning are
\* not part of it)
RestoreItemsAfter(items, p) ==
    IF p.Index < Len(items)
    THEN [items EXCEPT ![p.Index + 1].done = p.Done, ![p.Index + 1].err = p.Err,
                       ![p.Index + 1].skipped = p.Skipped]
    ELSE items

\* the first configured entry with the given path, 0 if there is none
FirstWithPath(entries, path) ==
    IF \E j \in DOMAIN entries : entries[j].Path = path
    THEN CHOOSE j \in DOMAIN entries :
            /\ entries[j].Path = path
            /\ \A k \in 1..(j - 1) : entries[k].Path # path
    ELSE 0

RECURSIVE BookkeepDespiteErr(_, _, _, _, _, _)
\* variant of BookkeepFrom that book-keeps failed items as well
BookkeepDespiteErr(i, items, restored, profile, mf, entries) ==
    IF i > Len(items) THEN entries
    ELSE LET j == IF items[i].done /\ i <= Len(restored)
                  THEN FirstWithPath(entries, restored[i].Path) ELSE 0
         IN  IF j = 0
             THEN BookkeepDespiteErr(i + 1, items, restored, profile, mf, entries)
             ELSE LET mkey == ManifestKey(entries[j], profile)
                  IN  BookkeepDespiteErr(i + 1, items, restored, profile, mf,
                         [entries EXCEPT ![j].LocalVersion = GetVersion(mf, mkey),
                                         ![j].LastHash = GetEntry(mf, mkey).ContentHash])

RECURSIVE BookkeepFrom(_, _, _, _, _, _)
\* handleRestoreProgress's loop over the progress items from item i on:
\* the restored entry's version and hash are taken from the manifest
BookkeepFrom(i, items, restored, profile, mf, entries) ==
    IF i > Len(items) THEN entries
    ELSE LET j == IF items[i].done /\ ~items[i].err /\ i <= Len(restored)
                  THEN FirstWithPath(entries, restored[i].Path) ELSE 0
         IN  IF j = 0
             THEN BookkeepFrom(i + 1, items, restored, profile, mf, entries)
             ELSE LET mkey == ManifestKey(entries[j], profile)
                  IN  BookkeepFrom(i + 1, items, restored, profile, mf,
                         [entries EXCEPT ![j].LocalVersion = GetVersion(mf, mkey),
                                         ![j].LastHash = GetEntry(mf, mkey).ContentHash])

\* restoreProgressMsg (dispatched in every view): handleRestoreProgress
HandleRestoreProgress(m) ==
    /\ m \in msgs
    /\ m.kind = "restore"
    /\ msgs' = msgs \ {m}
    /\ LET items == RestoreItemsAfter(ui.progressItems, m.p)
           restored == SelectedEntries(ui)
       IN  IF AllDone(items)
           THEN /\ cfg' = [cfg EXCEPT !.Entries =
                              BookkeepFrom(1, items, restored, cfg.DeviceProfile,
                                           repo.mf, cfg.Entries)]
                /\ ui' = [ui EXCEPT !.progressItems = items, !.progressDone = TRUE,
                                    !.statusMsg = "restore complete"]
                /\ results' = <<>>
                /\ restoredOk' =
                       {restored[i].Path : i \in
                           {k \in DOMAIN items :
                               /\ k <= Len(restored)
                               /\ items[k].done /\ ~items[k].err /\ items[k].skipped = 0
                               /\ FirstWithPath(cfg.Entries, restored[k].Path) # 0}}
                /\ UNCHANGED batches
           ELSE /\ ui' = [ui EXCEPT !.progressItems = items]
                /\ batches' = IF ui.restoreCh # 0
                              THEN [batches EXCEPT ![ui.restoreCh].recv = @ + 1]
                              ELSE batches
                /\ UNCHANGED <<cfg, results, restoredOk>>
    /\ UNCHANGED <<fs, repo, remote, syncs>>

\* updateRestoreRunning, esc / q / enter once progressDone is set
RestoreRunningKey ==
    /\ ui.currentView = viewRestore
    /\ ui.restoreStep = restoreStepRunning
    /\ ui.progressDone
    /\ ui' = [ui EXCEPT !.currentView = viewMainMenu, !.errMsg = "",
                        !.statusMsg = "", !.restoreCh = 0]
    /\ UNCHANGED <<cfg, fs, repo, remote, syncs, batches, msgs, results, restoredOk>>

(***************************************************************************)
(* SpecRestore: the restore view from the moment it has been entered and   *)
(* the command returned by initRestoreView is running, over the entries,   *)
(* local contents and repositories of the bounded input sets.              *)
(***************************************************************************)
\* what a device can have had at the path when it backed it up
BackedUpNodes(isDir) ==
    IF isDir
    THEN {DirNode({Reg(ByteA, ByteA)}),
          DirNode({Reg(ByteA, ByteA),
                   [name |-> ByteB, typ |-> "reg", data |-> ByteB, ok |-> FALSE]})}
    ELSE {FileNode(ByteA)}

\* what this machine can have at the path before the restore
RestoreLocalNodes(isDir) ==
    IF isDir
    THEN {NoNode, DirNode({Reg(ByteA, ByteB)}), DirNode({Reg(ByteB, ByteB)})}
    ELSE {NoNode, FileNode(ByteB)}

\* the remote after a device with the same routing has backed `node` up
\* into an empty repository
BackedUpRemote(e, profile, node) ==
    [mf |-> BumpVersion(EmptyManifest, ManifestKey(e, profile), HashEntry(e, node).hash),
     files |-> PutFile(NoFiles, RepoDir(e, profile), CopyEntry(e, node, NoNode).node)]

InitRestore ==
    /\ \E isDir \in BOOLEAN, ps \in BOOLEAN, profile \in Profiles :
       \E node \in RestoreLocalNodes(isDir) :
       \E rem \in {EmptyRemote} \cup
                  {BackedUpRemote(FreshEntry(isDir, ps), profile, n) :
                      n \in BackedUpNodes(isDir)} :
          /\ ps => profile # ""
          /\ cfg = [Entries |-> <<FreshEntry(isDir, ps)>>, DeviceProfile |-> profile]
          /\ fs = [p \in {FreshEntry(isDir, ps).Path} |-> node]
          /\ remote = rem
    /\ repo = [mf |-> EmptyManifest, files |-> NoFiles, dirty |-> FALSE, behind |-> TRUE]
    /\ ui = initRestoreView([InitialModel EXCEPT !.currentView = viewRestore])
    /\ syncs = [NoSyncs EXCEPT !.presync = 1]
    /\ batches = [b \in 1..MaxBatches |-> NoBatch]
    /\ msgs = {}
    /\ results = <<>>
    /\ restoredOk = {}

\* a conflict analysis of the current state
AnalyzeNow ==
    /\ results = <<>>
    /\ cfg.Entries # <<>>
    /\ Analyze

\* a local edit to any content of the model
RestoreLocalEdit(path, node) ==
    /\ Idle
    /\ path \in DOMAIN fs
    /\ node \in RestoreLocalNodes(PathIsDir(path))
    /\ node # fs[path]
    /\ fs' = [fs EXCEPT ![path] = node]
    /\ results' = <<>>
    /\ restoredOk' = restoredOk \ {path}
    /\ UNCHANGED <<cfg, repo, remote, ui, syncs, batches, msgs>>

NextRestore ==
    \/ \E ok \in BOOLEAN : HandleRestorePreSyncDone(ok)
    \/ MenuRestore
    \/ RestoreSyncingEsc
    \/ \E i \in DOMAIN ui.restoreEntries : RestoreKeySpace(i)
    \/ \E sel \in BOOLEAN : RestoreKeyAll(sel)
    \/ RestoreKeyEnter
    \/ RestoreKeyEsc
    \/ \E ok \in BOOLEAN : HandleRestoreSyncDone(ok)
    \/ \E b \in Channels : RestoreWorkerCopy(b)
    \/ \E b \in Channels : WorkerSend(b)
    \/ \E m \in msgs : HandleRestoreProgress(m)
    \/ RestoreRunningKey
    \/ AnalyzeNow
    \/ \E path \in DOMAIN fs, node \in RestoreLocalNodes(TRUE) \cup RestoreLocalNodes(FALSE) :
          RestoreLocalEdit(path, node)

SpecRestore == InitRestore /\ [][NextRestore]_vars

(***************************************************************************)
(* SpecRestorePair: the restore view as in SpecRestore, with two tracked   *)
(* entries (a file and a directory) of which another device has backed up  *)
(* one or both.                                                            *)
(***************************************************************************)
\* the remote after a device with the same routing has backed `node` up
\* as entry e on top of rem
BackedUpOnto(rem, e, profile, node) ==
    [mf |-> BumpVersion(rem.mf, ManifestKey(e, profile), HashEntry(e, node).hash),
     files |-> PutFile(rem.files, RepoDir(e, profile), CopyEntry(e, node, NoNode).node)]

\* what the other device had at the directory entry's path: a tree, or
\* nothing (the walk of a missing root skips it and reports no error)
PairDirNodes == {DirNode({Reg(ByteA, ByteA)}), NoNode}

InitRestorePair ==
    /\ \E ps1 \in BOOLEAN, ps2 \in BOOLEAN, profile \in Profiles :
       \E withDir \in BOOLEAN, dnode \in PairDirNodes :
          LET e1 == FreshEntry(FALSE, ps1)
              e2 == FreshEntry(TRUE, ps2)
              r1 == BackedUpOnto(EmptyRemote, e1, profile, FileNode(ByteA))
          IN  /\ (ps1 \/ ps2) => profile # ""
              /\ cfg = [Entries |-> <<e1, e2>>, DeviceProfile |-> profile]
              /\ \E n1 \in {NoNode, DirNode({})} :
                    fs = [p \in {e1.Path, e2.Path} |-> IF p = e1.Path THEN n1 ELSE NoNode]
              /\ remote = IF withDir THEN BackedUpOnto(r1, e2, profile, dnode) ELSE r1
    /\ repo = [mf |-> EmptyManifest, files |-> NoFiles, dirty |-> FALSE, behind |-> TRUE]
    /\ ui = initRestoreView([InitialModel EXCEPT !.currentView = viewRestore])
    /\ syncs = [NoSyncs EXCEPT !.presync = 1]
    /\ batches = [b \in 1..MaxBatches |-> NoBatch]
    /\ msgs = {}
    /\ results = <<>>
    /\ restoredOk = {}

SpecRestorePair == InitRestorePair /\ [][NextRestore]_vars

(***************************************************************************)
(* SpecConfirm: the restore view on a device that has backed its two       *)
(* entries up before (or restored them) and may have edited them since, so *)
(* that the entry list shows states other than Clean.                      *)
(***************************************************************************)
\* the entry as the backup or restore of `node` at version 1 left it
Tracked(e, node) ==
    [e EXCEPT !.LocalVersion = 1, !.LastHash = HashEntry(e, node).hash]

InitConfirm ==
    /\ \E known1 \in BOOLEAN, known2 \in BOOLEAN :
       \E n1 \in {NoNode, FileNode(ByteA), FileNode(ByteB)} :
       \E n2 \in {NoNode, DirNode({Reg(ByteA, ByteA)}), DirNode({Reg(ByteA, ByteB)})} :
          LET f1 == FreshEntry(FALSE, FALSE)
              f2 == FreshEntry(TRUE, FALSE)
              e1 == IF known1 THEN Tracked(f1, FileNode(ByteA)) ELSE f1
              e2 == IF known2 THEN Tracked(f2, DirNode({Reg(ByteA, ByteA)})) ELSE f2
          IN  /\ cfg = [Entries |-> <<e1, e2>>, DeviceProfile |-> ""]
              /\ fs = [p \in {PathFile, PathDir} |-> IF p = PathFile THEN n1 ELSE n2]
              /\ remote = BackedUpOnto(BackedUpOnto(EmptyRemote, f1, "", FileNode(ByteA)),
                                       f2, "", DirNode({Reg(ByteA, ByteA)}))
    /\ repo = [mf |-> EmptyManifest, files |-> NoFiles, dirty |-> FALSE, behind |-> TRUE]
    /\ ui = initRestoreView([InitialModel EXCEPT !.currentView = viewRestore])
    /\ syncs = [NoSyncs EXCEPT !.presync = 1]
    /\ batches = [b \in 1..MaxBatches |-> NoBatch]
    /\ msgs = {}
    /\ results = <<>>
    /\ restoredOk = {}

SpecConfirm == InitConfirm /\ [][NextRestore]_vars

\* C30: conflict analysis returns exactly one result per input entry, in
\* input order, and changes no entry (local_version, last_known_hash), no
\* manifest record and no file.
C30_AnalysisReadOnly ==
    [][(results = <<>> /\ results' # <<>>) =>
          /\ Len(results') = Len(cfg.Entries)
          /\ \A i \in 1..Len(cfg.Entries) : results'[i].Entry = cfg.Entries[i]
          /\ cfg' = cfg
          /\ fs' = fs
          /\ repo' = repo
          /\ remote' = remote]_vars

\* an analysis of a file entry and a directory entry has returned: the
\* file's result first, the directory's second, the file unhashable
C30_Witness ==
    /\ Len(results) = 2
    /\ results[1].Entry.Path = PathFile
    /\ results[2].Entry.Path = PathDir
    /\ results[1].LocalHash = NoHash
    /\ results[2].LocalHash # NoHash
    /\ repo.mf # EmptyManifest

(***************************************************************************)
(* Claims about the restore workflow (checked under SpecRestore).          *)
(***************************************************************************)
\* a selected item of the entry list carries a state that needs the user's
\* confirmation
NeedsConfirmation(u) ==
    \E i \in DOMAIN u.restoreEntries :
        /\ u.restoreEntries[i].selected
        /\ u.restoreEntries[i].conflict
              \in {StateModifiedLocal, StateConflict, StateNewerInRepo}

\* the restore of the selection is requested: the entry list is left for
\* the running step and startRestore is issued
RestoreRequested ==
    /\ InEntriesStep
    /\ ui'.restoreStep = restoreStepRunning
    /\ syncs'.restore = syncs.restore + 1

C7_CleanAfterRestore ==
    \A i \in DOMAIN results :
        results[i].Entry.Path \in restoredOk => results[i].State = StateClean

\* a step in which Update handles the restore message that completes the
\* batch
RestoreCompletes ==
    /\ msgs' # msgs /\ msgs' \subseteq msgs
    /\ \A m \in msgs \ msgs' : m.kind = "restore"
    /\ ~ui.progressDone /\ ui'.progressDone
    /\ AllDone(ui'.progressItems)

\* the tracked entry e was selected for the batch and its terminal event
\* carried no error
RestoredWithoutError(e, items) ==
    \E i \in DOMAIN items : items[i].name = e.Path /\ items[i].done /\ ~items[i].err

InitTransport ==
    /\ \E node \in UINodes(FALSE), inRestore \in BOOLEAN :
       \E rem \in {EmptyRemote, BackedUpRemote(FreshEntry(FALSE, FALSE), "work", FileNode(ByteA))} :
          /\ cfg = [Entries |-> <<FreshEntry(FALSE, FALSE)>>, DeviceProfile |-> "work"]
          /\ fs = [p \in {PathFile} |-> node]
          /\ remote = rem
          /\ ui = IF inRestore
                  THEN initRestoreView([InitialModel EXCEPT !.currentView = viewRestore])
                  ELSE InitialModel
          /\ syncs = IF inRestore THEN [NoSyncs EXCEPT !.presync = 1] ELSE NoSyncs
    /\ repo = [mf |-> EmptyManifest, files |-> NoFiles, dirty |-> FALSE, behind |-> TRUE]
    /\ batches = [b \in 1..MaxBatches |-> NoBatch]
    /\ msgs = {}
    /\ results = <<>>
    /\ restoredOk = {}

NextTransport ==
    \/ MenuBackup
    \/ \E ok \in BOOLEAN : HandleRepoSyncDone(ok)
    \/ BackupKeyY
    \/ BackupKeyEsc
    \/ BackupKeyEnter
    \/ \E b \in Channels : BackupWorkerCopy(b)
    \/ \E b \in Channels : WorkerSend(b)
    \/ \E b \in Channels : RecvClosed(b)
    \/ \E m \in msgs, pushOk \in BOOLEAN : HandleBackupProgress(m, pushOk)
    \/ \E path \in DOMAIN fs : OtherDevicePush(path)
    \/ \E ok \in BOOLEAN : HandleRestorePreSyncDone(ok)
    \/ MenuRestore
    \/ RestoreSyncingEsc
    \/ \E i \in DOMAIN ui.restoreEntries : RestoreKeySpace(i)
    \/ RestoreKeyEnter
    \/ RestoreKeyEsc
    \/ \E ok \in BOOLEAN : HandleRestoreSyncDone(ok)
    \/ \E b \in Channels : RestoreWorkerCopy(b)
    \/ \E m \in msgs : HandleRestoreProgress(m)
    \/ RestoreRunningKey

SpecTransport == InitTransport /\ [][NextTransport]_vars

\* an EnsureRepo started by startBackup, initRestoreView or startRestore
\* has ended and its message is handled in this step
RefreshEnds ==
    \/ syncs'.backup < syncs.backup
    \/ syncs'.presync < syncs.presync
    \/ syncs'.restore < syncs.restore

\* the refresh handled in this step failed: the clone held unpushed work
\* while the remote had moved on (git pull --ff-only refuses), or the
\* step puts the "Repo sync failed" message on display
RefreshFailed ==
    /\ RefreshEnds
    /\ \/ repo.dirty /\ repo.behind
       \/ ui'.errMsg = "sync failed" /\ ui.errMsg # "sync failed"

PushFailed ==
    /\ BackupCompletes
    /\ ui'.errMsg = "push failed"
    /\ remote' = remote

\* the remote's manifest records the entry's version and hash
Published(e) ==
    LET rec == GetEntry(remote.mf, ManifestKey(e, cfg.DeviceProfile))
    IN  rec.Version = e.LocalVersion /\ rec.ContentHash = e.LastHash

\* C34: if the commit/push at the end of a backup fails, no entry's
\* local_version and last_known_hash are advanced to a version and hash
\* that the remote does not hold.
C34_NoAdvanceOnPushFailure ==
    [][PushFailed =>
          \A j \in DOMAIN cfg'.Entries :
              \/ /\ cfg'.Entries[j].LocalVersion = cfg.Entries[j].LocalVersion
                 /\ cfg'.Entries[j].LastHash = cfg.Entries[j].LastHash
              \/ Published(cfg'.Entries[j])]_vars

(***************************************************************************)
(* SpecStale: the restore view as in SpecRestore, with another device      *)
(* pushing a backup of the entry while the entry list is on display.       *)
(***************************************************************************)
\* the other device backs up what it has at the path while this device
\* shows its entry list
PushWhileListed(path) ==
    LET e == [FreshEntry(PathIsDir(path), FALSE) EXCEPT !.Path = path]
        node == OtherNode(PathIsDir(path))
        key == ManifestKey(e, "work")
        dir == RepoDir(e, "work")
        c == CopyEntry(e, node, FileAt(remote.files, dir))
    IN  /\ InEntriesStep
        /\ syncs = NoSyncs
        /\ path \in DOMAIN fs
        /\ ~c.err
        /\ GetVersion(remote.mf, key) < MaxVersion
        /\ remote' = [mf |-> BumpVersion(remote.mf, key, HashEntry(e, node).hash),
                      files |-> PutFile(remote.files, dir, c.node)]
        /\ repo' = [repo EXCEPT !.behind = TRUE]
        /\ UNCHANGED <<cfg, fs, ui, syncs, batches, msgs, results, restoredOk>>

NextStale ==
    \/ NextRestore
    \/ \E path \in DOMAIN fs : PushWhileListed(path)

SpecStale == InitRestore /\ [][NextStale]_vars

\* this step is handleRestoreSyncDone starting the copy of the selection
RestoreCopyStarts ==
    /\ syncs'.restore < syncs.restore
    /\ \E b \in Channels :
          /\ batches'[b] # batches[b]
          /\ batches'[b].kind = "restore"

\* C39: the clone a restore batch copies from (content and manifest) is the
\* one the conflict states on display were computed against: the refresh
\* that precedes the copy brings in no remote change.
C39_RestoreFromAnalysedState ==
    [][RestoreCopyStarts =>
          /\ repo'.mf = repo.mf
          /\ repo'.files = repo.files]_vars

(***************************************************************************)
(* SpecMenu: the program from its start at the main menu: the user enters  *)
(* the restore view (directly or through the profile prompt), the profile  *)
(* editor and the backup view.  SpecMenuLive adds the scheduling of the    *)
(* runtime: the message of a running command is delivered, a worker with   *)
(* a receiver sends.  No step of HandleRestorePreSyncDone belongs to       *)
(* NextMenu because no behaviour from Init ever has a pre-sync running.    *)
(***************************************************************************)
NextMenu ==
    \/ MenuRestore
    \/ RestoreSyncingEsc
    \/ MenuProfile
    \/ ProfileEditEsc
    \/ \E input \in ProfileInputs : ProfileEditEnter(input)
    \/ MenuBackup
    \/ \E ok \in BOOLEAN : HandleRepoSyncDone(ok)
    \/ BackupKeyEsc
    \/ BackupKeyEnter
    \/ \E b \in Channels : BackupWorkerCopy(b)
    \/ \E b \in Channels : WorkerSend(b)
    \/ \E m \in msgs, pushOk \in BOOLEAN : HandleBackupProgress(m, pushOk)

SpecMenu == Init /\ [][NextMenu]_vars

SpecMenuLive ==
    /\ SpecMenu
    /\ WF_vars(\E ok \in BOOLEAN : HandleRestorePreSyncDone(ok))
    /\ WF_vars(\E ok \in BOOLEAN : HandleRepoSyncDone(ok))
    /\ \A b \in 1..MaxBatches : WF_vars(WorkerSend(b))

\* the restore view is shown in its Syncing step
RestoreSyncing == ui.currentView = viewRestore /\ ui.restoreStep = restoreStepSyncing

\* C37: once the restore view has been entered, from the main menu or after
\* a device profile was supplied, it eventually leaves its Syncing step for
\* the entry list (or the user has left the view).
C37_RestoreListShown ==
    RestoreSyncing ~> (ui.restoreStep = restoreStepEntries \/ ui.currentView # viewRestore)

(***************************************************************************)
(* SpecOverlap: SpecTransport with room for MaxOverlap runs and refreshes  *)
(* at a time, so that a second operation requested while the first is in   *)
(* flight is not held back by the bound.                                   *)
(***************************************************************************)
MaxOverlap == 2

InitOverlap ==
    /\ \E node \in UINodes(FALSE), inRestore \in BOOLEAN :
       \E rem \in {EmptyRemote, BackedUpRemote(FreshEntry(FALSE, FALSE), "work", FileNode(ByteA))} :
          /\ cfg = [Entries |-> <<FreshEntry(FALSE, FALSE)>>, DeviceProfile |-> "work"]
          /\ fs = [p \in {PathFile} |-> node]
          /\ remote = rem
          /\ ui = IF inRestore
                  THEN initRestoreView([InitialModel EXCEPT !.currentView = viewRestore])
                  ELSE InitialModel
          /\ syncs = IF inRestore THEN [NoSyncs EXCEPT !.presync = 1] ELSE NoSyncs
    /\ repo = [mf |-> EmptyManifest, files |-> NoFiles, dirty |-> FALSE, behind |-> TRUE]
    /\ batches = [b \in 1..MaxOverlap |-> NoBatch]
    /\ msgs = {}
    /\ results = <<>>
    /\ restoredOk = {}

SpecOverlap == InitOverlap /\ [][NextTransport]_vars

\* this step starts a run on channel b (runBackup or runRestore)
RunStarts(b) == Reusable(b) /\ batches'[b].recv = 1

\* the run on channel b has not finished: its worker has entries left or a
\* Progress it has not delivered
InFlight(b) == ~batches[b].closed \/ batches[b].pending # <<>>

\* C23: no backup or restore run is started while another batch is in
\* flight, that is while the refresh of another backup or restore is
\* pending or another run's worker has not finished.
C23_NoOverlap ==
    [][\A b \in Channels :
          RunStarts(b) =>
              /\ syncs'.backup = 0 /\ syncs'.restore = 0
              /\ \A c \in Channels \ {b} : ~InFlight(c)]_vars

(***************************************************************************)
(* SpecLeak: the backup view of a machine that tracks a file and a         *)
(* directory, with room for MaxOverlap runs and refreshes at a time.       *)
(***************************************************************************)
InitLeak ==
    /\ cfg = [Entries |-> <<FreshEntry(FALSE, FALSE), FreshEntry(TRUE, FALSE)>>,
              DeviceProfile |-> "work"]
    /\ fs = [p \in {PathFile, PathDir} |-> OwnNode(PathIsDir(p))]
    /\ remote = EmptyRemote
    /\ repo = [mf |-> EmptyManifest, files |-> NoFiles, dirty |-> FALSE, behind |-> TRUE]
    /\ ui = InitialModel
    /\ syncs = NoSyncs
    /\ batches = [b \in 1..MaxOverlap |-> NoBatch]
    /\ msgs = {}
    /\ results = <<>>
    /\ restoredOk = {}

NextLeak ==
    \/ MenuBackup
    \/ \E ok \in BOOLEAN : HandleRepoSyncDone(ok)
    \/ BackupKeyEsc
    \/ BackupKeyEnter
    \/ \E b \in Channels : BackupWorkerCopy(b)
    \/ \E b \in Channels : WorkerSend(b)
    \/ \E b \in Channels : RecvClosed(b)
    \/ \E m \in msgs, pushOk \in BOOLEAN : HandleBackupProgress(m, pushOk)

SpecLeak == InitLeak /\ [][NextLeak]_vars

\* the worker of run b is blocked on `ch <- p` and nothing will receive
\* it: no receive is pending on the channel, no received message of the
\* channel awaits its handler, and the model no longer holds the channel
Abandoned(b) ==
    /\ batches[b].pending # <<>>
    /\ batches[b].recv = 0
    /\ ui.backupCh # b /\ ui.restoreCh # b
    /\ \A m \in msgs : m.ch # b

\* C28: when the UI stops consuming a running batch's progress events, the
\* batch's worker is not left blocked on an event nobody will receive: it
\* runs to completion and terminates.
C28_NoBlockedWorker == \A b \in Channels : ~Abandoned(b)

(***************************************************************************)
(* SpecEngine: one run of backup.Run or restore.Run on a batch of up to    *)
(* MaxEntries entries and a consumer that keeps receiving from the run's   *)
(* channel until it is closed. The sources and destinations include        *)
(* missing, unreadable and unwritable ones. ui is the consumer here: the   *)
(* events it has received, in order, and whether it has seen the channel   *)
(* closed.                                                                 *)
(***************************************************************************)
MaxEntries == 2

ForeignFile(d) ==
    [kind |-> "file", data |-> d, files |-> {}, ok |-> TRUE, foreign |-> TRUE]

\* what can sit at the source of an entry: nothing, readable content,
\* content that cannot be opened or listed, a tree with a member that
\* cannot be read, a tree with a socket, an empty tree, a tree of nothing
\* but a socket
EngineSrcNodes(isDir) ==
    IF isDir
    THEN {NoNode,
          DirNode({}),
          DirNode({[name |-> ByteB, typ |-> "special", data |-> <<>>, ok |-> TRUE]}),
          DirNode({Reg(ByteA, ByteA), Reg(ByteB, ByteB)}),
          DirNode({Reg(ByteA, ByteA),
                   [name |-> ByteB, typ |-> "reg", data |-> ByteB, ok |-> FALSE]}),
          DirNode({Reg(ByteA, ByteA),
                   [name |-> ByteB, typ |-> "special", data |-> <<>>, ok |-> TRUE]}),
          [DirNode({}) EXCEPT !.ok = FALSE]}
    ELSE {NoNode, FileNode(ByteA), [FileNode(ByteA) EXCEPT !.ok = FALSE]}

\* what can sit at the destination of an entry: nothing, older content,
\* a node of the other kind (the destination cannot be created), content
\* of another owner (its mode cannot be set)
EngineDstNodes(isDir) ==
    IF isDir
    THEN {NoNode, DirNode({Reg(ByteB, ByteA)}), FileNode(ByteB),
          DirNode({Foreign(ByteA, ByteB)})}
    ELSE {NoNode, FileNode(ByteB), DirNode({}), ForeignFile(ByteB)}

EngineEntries == {FreshEntry(isDir, FALSE) : isDir \in BOOLEAN}

EngineBatches ==
    UNION {[1..n -> EngineEntries] : n \in 0..MaxEntries}

\* nothing at the two paths, no run yet
InitEngine ==
    /\ cfg = [Entries |-> <<>>, DeviceProfile |-> ""]
    /\ fs = [p \in {PathFile, PathDir} |-> NoNode]
    /\ repo = [mf |-> EmptyManifest, files |-> NoFiles, dirty |-> FALSE, behind |-> FALSE]
    /\ batches = [b \in 1..MaxBatches |-> NoBatch]
    /\ remote = EmptyRemote
    /\ ui = [received |-> <<>>, ended |-> FALSE]
    /\ syncs = NoSyncs
    /\ msgs = {}
    /\ results = <<>>
    /\ restoredOk = {}

\* the consumer calls Run(entries, repoPath, "") of the engine `kind` and
\* starts receiving; srcF, srcD are what sits at the sources of the file
\* and of the directory entry at that moment, dstF, dstD at their
\* destinations
EngineRun(kind, entries, srcF, srcD, dstF, dstD) ==
    /\ \A b \in Channels : batches[b] = NoBatch
    /\ ui.received = <<>> /\ ~ui.ended
    /\ LET local == [p \in {PathFile, PathDir} |->
                        IF kind = "backup"
                        THEN (IF p = PathFile THEN srcF ELSE srcD)
                        ELSE (IF p = PathFile THEN dstF ELSE dstD)]
           eF == FreshEntry(FALSE, FALSE)
           eD == FreshEntry(TRUE, FALSE)
           inRepo == IF kind = "backup"
                     THEN PutFile(PutFile(NoFiles, RepoDir(eF, ""), dstF),
                                  RepoDir(eD, ""), dstD)
                     ELSE PutFile(PutFile(NoFiles, RepoDir(eF, ""), srcF),
                                  RepoDir(eD, ""), srcD)
       IN  /\ cfg' = [cfg EXCEPT !.Entries = entries]
           /\ fs' = local
           /\ repo' = [repo EXCEPT !.files = inRepo]
           /\ batches' = [batches EXCEPT ![1] = NewBatch(kind, entries, "")]
    /\ UNCHANGED <<remote, ui, syncs, msgs, results, restoredOk>>

\* the consumer takes what its receive returned and receives again; the
\* receive that found the channel closed (ok = false) is the last one
EngineConsume(m) ==
    /\ m \in msgs
    /\ msgs' = msgs \ {m}
    /\ IF m.p = ClosedProgress(m.kind)
       THEN /\ ui' = [ui EXCEPT !.ended = TRUE]
            /\ UNCHANGED batches
       ELSE /\ ui' = [ui EXCEPT !.received = Append(@, m.p)]
            /\ batches' = [batches EXCEPT ![m.ch].recv = @ + 1]
    /\ UNCHANGED <<cfg, fs, repo, remote, syncs, results, restoredOk>>

\* a step of the run's goroutine or of the consumer
EngineStep ==
    \/ \E b \in Channels : BackupWorkerCopy(b)
    \/ \E b \in Channels : RestoreWorkerCopy(b)
    \/ \E b \in Channels : WorkerSend(b)
    \/ \E b \in Channels : RecvClosed(b)
    \/ \E m \in msgs : EngineConsume(m)

NextEngine ==
    \/ \E kind \in {"backup", "restore"}, entries \in EngineBatches :
       \E srcF \in EngineSrcNodes(FALSE), srcD \in EngineSrcNodes(TRUE) :
       \E dstF \in EngineDstNodes(FALSE), dstD \in EngineDstNodes(TRUE) :
          EngineRun(kind, entries, srcF, srcD, dstF, dstD)
    \/ EngineStep

SpecEngine == InitEngine /\ [][NextEngine]_vars

\* the goroutine of Run has an entry to copy: the guard of
\* BackupWorkerCopy and RestoreWorkerCopy (the copy of an entry always
\* ends, with or without an error)
CopyEnabled(b) ==
    /\ batches[b].kind \in {"backup", "restore"}
    /\ batches[b].idx <= Len(batches[b].entries)
    /\ batches[b].pending = <<>>

\* the goroutine of Run is scheduled (weak fairness of its copy step, with
\* the step's enabling condition written out, and of its send), receives
\* return, and the consumer keeps receiving
SpecEngineLive ==
    /\ SpecEngine
    /\ \A b \in 1..MaxBatches :
          \/ []<>(~CopyEnabled(b))
          \/ []<><<BackupWorkerCopy(b) \/ RestoreWorkerCopy(b)>>_vars
    /\ \A b \in 1..MaxBatches : WF_vars(WorkerSend(b)) /\ WF_vars(RecvClosed(b))
    /\ WF_vars(\E m \in msgs : EngineConsume(m))

(***************************************************************************)
(* Claims about the two engines (checked under SpecEngine).                *)
(***************************************************************************)
\* the engine of the run
EngineKind == batches[1].kind

\* the node at the source / destination of entry e in the current state
EngineSrc(e) ==
    IF EngineKind = "backup" THEN LocalAt(fs, e.Path)
    ELSE FileAt(repo.files, RepoDir(e, cfg.DeviceProfile))
EngineDst(e) ==
    IF EngineKind = "backup" THEN FileAt(repo.files, RepoDir(e, cfg.DeviceProfile))
    ELSE LocalAt(fs, e.Path)

\* the events received so far are those of the first entries, in order
InSubmissionOrder ==
    /\ Len(ui.received) <= Len(cfg.Entries)
    /\ \A i \in DOMAIN ui.received :
          /\ ui.received[i].Index = i - 1
          /\ ui.received[i].Entry = cfg.Entries[i]
          /\ ui.received[i].Done
    /\ ui.ended => Len(ui.received) = Len(cfg.Entries)

\* C14: a consumer that keeps receiving gets exactly one terminal event
\* per entry of the batch, with indexes 0..n-1 in submission order, and
\* then finds the channel closed; for both engines, with or without
\* per-entry errors.
C14_OrderedComplete ==
    /\ []InSubmissionOrder
    /\ (EngineKind # "none") ~> [](ui.ended /\ Len(ui.received) = Len(cfg.Entries))

\* a two-entry batch received completely, the first event carrying an
\* error
C14_Witness ==
    /\ ui.ended
    /\ Len(ui.received) = 2
    /\ ui.received[1].Err /\ ~ui.received[2].Err

\* the source of entry e is missing; its destination cannot be written
\* (something of the other kind sits there)
SourceMissing(e) == EngineSrc(e).kind = "none"
DestinationUnwritable(e) ==
    IF e.IsDir THEN EngineDst(e).kind = "file" ELSE EngineDst(e).kind = "dir"

\* C15: an entry whose source is missing or whose destination is
\* unwritable gets a terminal event that carries an error, file and
\* directory entries alike, in both engines, and the entries after it are
\* still processed.
C15_FailedEntryMarked ==
    /\ \A i \in DOMAIN ui.received :
          (SourceMissing(ui.received[i].Entry) \/ DestinationUnwritable(ui.received[i].Entry))
          => ui.received[i].Err
    /\ ui.ended => Len(ui.received) = Len(cfg.Entries)

\* the members of a source tree that cannot be copied (unreadable or
\* special), and the regular files that can
Unreadable(node) == {f \in node.files : ~f.ok \/ f.typ = "special"}
Readable(node) == {f \in node.files : f.ok /\ f.typ = "reg"}

\* C16: in the copy of a directory (source a listable directory,
\* destination creatable), a failure on one file skips that file and never
\* aborts the entry: the terminal event carries no error, skipped is the
\* number of files that could not be copied, and the backup engine's
\* copied is the number of readable files.
C16_PerFileFailureSkips ==
    \A i \in DOMAIN ui.received :
        LET p == ui.received[i]
            src == EngineSrc(p.Entry)
        IN  (/\ p.Entry.IsDir
             /\ src.kind = "dir" /\ src.ok
             /\ ~DestinationUnwritable(p.Entry))
            => /\ ~p.Err
               /\ p.Skipped = Cardinality(Unreadable(src))
               /\ EngineKind = "backup" => p.Copied = Cardinality(Readable(src))

\* the number of skip reasons a terminal event carries
NumReasons(p) == IF "SkipReasons" \in DOMAIN p THEN Len(p.SkipReasons) ELSE 0

\* C17: in every terminal event of either engine, the number of recorded
\* skip reasons equals the skip counter.
C17_ReasonPerSkip ==
    \A i \in DOMAIN ui.received : NumReasons(ui.received[i]) = ui.received[i].Skipped

\* C27: whenever the backup of a directory entry ends without error and
\* has copied no regular file at all, its terminal event carries a warning.
C27_WarningWhenNothingCopied ==
    \A i \in DOMAIN ui.received :
        LET p == ui.received[i]
        IN  (EngineKind = "backup" /\ p.Entry.IsDir /\ ~p.Err /\ p.Copied = 0)
               => p.Warning

(***************************************************************************)
(* SpecRouter: the storage router applied to pairs of entries under every  *)
(* profile of the bounded input sets.                                      *)
(***************************************************************************)
RouterPaths == {PathFile, PathDir, <<"~", ".config", "nvim">>}

RouterProfiles == {"", "work", "Work"}

RouterEntries ==
    {[FreshEntry(FALSE, ps) EXCEPT !.Path = path] :
        path \in RouterPaths, ps \in BOOLEAN}

InitRouter ==
    /\ \E e1 \in RouterEntries, e2 \in RouterEntries, profile \in RouterProfiles :
          cfg = [Entries |-> <<e1, e2>>, DeviceProfile |-> profile]
    /\ fs = NoFiles
    /\ repo = [mf |-> EmptyManifest, files |-> NoFiles, dirty |-> FALSE, behind |-> TRUE]
    /\ remote = EmptyRemote
    /\ ui = InitialModel
    /\ syncs = NoSyncs
    /\ batches = [b \in 1..MaxBatches |-> NoBatch]
    /\ msgs = {}
    /\ results = <<>>
    /\ restoredOk = {}

\* storage.RepoDir and storage.ManifestKey of every configured entry
Route ==
    /\ results = <<>>
    /\ results' = [i \in DOMAIN cfg.Entries |->
                      [Entry |-> cfg.Entries[i],
                       Dir |-> RepoDir(cfg.Entries[i], cfg.DeviceProfile),
                       Key |-> ManifestKey(cfg.Entries[i], cfg.DeviceProfile)]]
    /\ UNCHANGED <<cfg, fs, repo, remote, ui, syncs, batches, msgs, restoredOk>>

NextRouter == Route

SpecRouter == InitRouter /\ [][NextRouter]_vars

(***************************************************************************)
(* Claims about the storage router (checked under SpecRouter).             *)
(***************************************************************************)
HasPrefix(seq, prefix) ==
    Len(seq) >= Len(prefix) /\ SubSeq(seq, 1, Len(prefix)) = prefix

\* C10: the manifest key and the repository location of an entry are both
\* under shared/ or both under profiles/<lowercased profile>/, and two
\* entries with the same path that differ only in is_profile_specific get
\* different repository locations and different manifest keys.
C10_RoutingBijective ==
    /\ \A i \in DOMAIN results :
          LET sharedP == <<"shared">>
              profP == <<"profiles", ToLower(cfg.DeviceProfile)>>
          IN  \/ HasPrefix(results[i].Dir, sharedP) /\ HasPrefix(results[i].Key, sharedP)
              \/ HasPrefix(results[i].Dir, profP) /\ HasPrefix(results[i].Key, profP)
    /\ \A i, j \in DOMAIN results :
          (/\ results[i].Entry.Path = results[j].Entry.Path
           /\ results[i].Entry.ProfileSpecific # results[j].Entry.ProfileSpecific)
          => /\ results[i].Dir # results[j].Dir
             /\ results[i].Key # results[j].Key

\* C11: for every entry and profile, the manifest key of the entry is the
\* same string as its repository-relative directory.
C11_KeyIsRepoDir ==
    \A i \in DOMAIN results : results[i].Key = results[i].Dir

\* C12: a profile-specific entry with no device profile set is not routable:
\* the router gives it no repository location and no manifest key, and in
\* particular nothing under shared/.
C12_NoProfileNotRoutable ==
    \A i \in DOMAIN results :
        (results[i].Entry.ProfileSpecific /\ cfg.DeviceProfile = "")
        => /\ ~HasPrefix(results[i].Dir, <<"shared">>)
           /\ ~HasPrefix(results[i].Key, <<"shared">>)

(***************************************************************************)
(* SpecDevices: several devices share the remote. Here cfg, fs, repo and   *)
(* syncs are indexed by device: each device has its configuration, its     *)
(* local files, its clone and the phase of its backup view. A device       *)
(* refreshes its clone (restore view), refreshes and migrates it (backup   *)
(* view), backs up and pushes, restores. The remote starts empty or in the *)
(* flat legacy layout.                                                     *)
(***************************************************************************)
Devices == {1, 2}

\* the content device d has at the tracked path
DeviceNode(d) == IF d = 1 THEN OwnNode(TRUE) ELSE OtherNode(TRUE)

RECURSIVE RunBackupFrom(_, _, _, _, _)
\* backup.Run over the entries from entry i on, received by
\* handleBackupProgress; st = [files, items]: the clone's working tree and
\* the progress items
RunBackupFrom(i, entries, profile, local, st) ==
    IF i > Len(entries) THEN st
    ELSE LET e == entries[i]
             dir == RepoDir(e, profile)
             src == LocalAt(local, e.Path)
             dst == FileAt(st.files, dir)
         IN  RunBackupFrom(i + 1, entries, profile, local,
                [files |-> PutFile(st.files, dir, CopyEntry(e, src, dst).node),
                 items |-> ItemsAfter(st.items, BackupProgress(e, i - 1, src, dst))])

RECURSIVE RunRestoreFrom(_, _, _, _, _)
\* restore.Run over the entries from entry i on, received by
\* handleRestoreProgress; st = [local, items]
RunRestoreFrom(i, entries, profile, files, st) ==
    IF i > Len(entries) THEN st
    ELSE LET e == entries[i]
             src == FileAt(files, RepoDir(e, profile))
             dst == LocalAt(st.local, e.Path)
         IN  RunRestoreFrom(i + 1, entries, profile, files,
                [local |-> [p \in DOMAIN st.local \cup {e.Path} |->
                               IF p = e.Path THEN CopyEntry(e, src, dst).node
                               ELSE st.local[p]],
                 items |-> RestoreItemsAfter(st.items,
                                             RestoreProgress(e, i - 1, src, dst))])

InitDevices ==
    /\ \E ps \in [Devices -> BOOLEAN], present \in [Devices -> BOOLEAN] :
          /\ cfg = [d \in Devices |->
                      [Entries |-> <<FreshEntry(TRUE, ps[d])>>,
                       DeviceProfile |-> IF ps[d] THEN "work" ELSE ""]]
          /\ fs = [d \in Devices |->
                      [p \in {PathDir} |-> IF present[d] THEN DeviceNode(d) ELSE NoNode]]
    /\ remote \in {EmptyRemote, LegacyRemote(FreshEntry(TRUE, FALSE), OwnNode(TRUE))}
    /\ repo = [d \in Devices |->
                  [mf |-> EmptyManifest, files |-> NoFiles, dirty |-> FALSE, behind |-> TRUE]]
    /\ syncs = [d \in Devices |-> "idle"]
    /\ ui = InitialModel
    /\ batches = [b \in 1..MaxBatches |-> NoBatch]
    /\ msgs = {}
    /\ results = <<>>
    /\ restoredOk = {}

\* EnsureRepo of the restore view on device d
DevRefresh(d) ==
    /\ CanPull(repo[d])
    /\ repo' = [repo EXCEPT ![d] = Pulled(repo[d], remote)]
    /\ repo' # repo
    /\ UNCHANGED <<cfg, fs, remote, ui, syncs, batches, msgs, results, restoredOk>>

\* startBackup and handleRepoSyncDone on device d: EnsureRepo, then the
\* legacy migration
DevBackupSync(d) ==
    /\ CanPull(repo[d])
    /\ LET r1 == Pulled(repo[d], remote)
           mig == MigrateLegacyLayout(cfg[d], r1)
       IN  repo' = [repo EXCEPT ![d] =
                       [r1 EXCEPT !.mf = IF mig.migrated > 0 THEN mig.mf ELSE r1.mf,
                                  !.files = mig.files,
                                  !.dirty = r1.dirty \/ mig.migrated > 0]]
    /\ syncs' = [syncs EXCEPT ![d] = "backup"]
    /\ UNCHANGED <<cfg, fs, remote, ui, batches, msgs, results, restoredOk>>

\* runBackup and handleBackupProgress on device d, up to the completion of
\* the batch: the copies, the version bumps, and CommitAndPush if anything
\* counted as changed (pushOk: its outcome)
DevBackup(d, pushOk) ==
    /\ syncs[d] = "backup"
    /\ syncs' = [syncs EXCEPT ![d] = "idle"]
    /\ LET c == cfg[d]
           run == RunBackupFrom(1, c.Entries, c.DeviceProfile, fs[d],
                     [files |-> repo[d].files,
                      items |-> [i \in DOMAIN c.Entries |-> NewItem(c.Entries[i])]])
           fin == BumpFrom(1, run.items, c.DeviceProfile,
                           [entries |-> c.Entries, mf |-> repo[d].mf, changed |-> 0])
           r1 == [repo[d] EXCEPT !.mf = fin.mf, !.files = run.files,
                                 !.dirty = \/ repo[d].dirty
                                           \/ fin.mf # repo[d].mf
                                           \/ run.files # repo[d].files]
       IN  /\ \A k \in DOMAIN fin.mf : fin.mf[k].Version <= MaxVersion
           /\ cfg' = [cfg EXCEPT ![d].Entries = fin.entries]
           /\ IF fin.changed > 0 /\ pushOk
              THEN /\ CanPush(repo[d])
                   /\ remote' = Pushed(r1)
                   /\ repo' = [x \in Devices |->
                                  IF x = d THEN [r1 EXCEPT !.dirty = FALSE]
                                  ELSE [repo[x] EXCEPT !.behind =
                                           @ \/ remote' # remote]]
              ELSE /\ fin.changed > 0 \/ pushOk
                   /\ repo' = [repo EXCEPT ![d] = r1]
                   /\ UNCHANGED remote
    /\ UNCHANGED <<fs, ui, batches, msgs, results, restoredOk>>

\* runRestore and handleRestoreProgress on device d for all its entries,
\* up to the completion of the batch
DevRestore(d) ==
    /\ ~repo[d].behind
    /\ LET c == cfg[d]
           run == RunRestoreFrom(1, c.Entries, c.DeviceProfile, repo[d].files,
                     [local |-> fs[d],
                      items |-> [i \in DOMAIN c.Entries |-> NewItem(c.Entries[i])]])
       IN  /\ fs' = [fs EXCEPT ![d] = run.local]
           /\ cfg' = [cfg EXCEPT ![d].Entries =
                         BookkeepFrom(1, run.items, c.Entries, c.DeviceProfile,
                                      repo[d].mf, c.Entries)]
    /\ <<fs', cfg'>> # <<fs, cfg>>
    /\ UNCHANGED <<repo, remote, ui, syncs, batches, msgs, results, restoredOk>>

NextDevices ==
    \/ \E d \in Devices : DevRefresh(d)
    \/ \E d \in Devices : DevBackupSync(d)
    \/ \E d \in Devices, pushOk \in BOOLEAN : DevBackup(d, pushOk)
    \/ \E d \in Devices : DevRestore(d)

SpecDevices == InitDevices /\ [][NextDevices]_vars

\* a storage key: the router's shared/... or profiles/<profile>/...
IsStorageKey(k) == HasPrefix(k, <<"shared">>) \/ HasPrefix(k, <<"profiles">>)

SyncAnalysis(d) ==
    LET r == IF CanPull(repo[d]) THEN Pulled(repo[d], remote) ELSE repo[d]
    IN  CheckConflicts(cfg[d].Entries, r.mf, fs[d])

\* device d holds a backup of its shared entry i that it made without the
\* remote's latest state, the remote holds another backup of the entry,
\* and d's local content is not the content the remote's manifest records
BackedUpConcurrently(d, i) ==
    LET e == cfg[d].Entries[i]
        key == ManifestKey(e, cfg[d].DeviceProfile)
    IN  /\ ~e.ProfileSpecific
        /\ syncs[d] = "idle"
        /\ repo[d].dirty /\ repo[d].behind
        /\ key \in DOMAIN remote.mf /\ key \in DOMAIN repo[d].mf
        /\ e.LocalVersion = repo[d].mf[key].Version
        /\ LocalAt(fs[d], e.Path).kind # "none"
        /\ HashEntry(e, LocalAt(fs[d], e.Path)).hash # remote.mf[key].ContentHash

\* C32: when two machines have backed up the same shared entry without an
\* intervening sync, the machine whose local content differs from the
\* content the manifest now records gets a non-Clean state for the entry
\* from the conflict analysis of its next sync.
C32_ConcurrentBackupCaught ==
    \A d \in Devices :
    \A i \in DOMAIN cfg[d].Entries :
        BackedUpConcurrently(d, i) => SyncAnalysis(d)[i].State # StateClean

(***************************************************************************)
(* SpecMigrate: storage.MigrateLegacyLayout run repeatedly on one clone.   *)
(* The configuration tracks one or two files, ~/f and ~/shared/f, in       *)
(* either order; the clone was last written by a version that stored an    *)
(* entry at its home-relative path under the repository root, with the     *)
(* manifest keyed by the entry's path. results holds the migrated count    *)
(* each run returned.                                                      *)
(***************************************************************************)
MaxRuns == 3

MigratePaths == {<<"~", "f">>, <<"~", "shared", "f">>}

MigrateEntry(path, ps) ==
    [Path |-> path, IsDir |-> FALSE, ProfileSpecific |-> ps,
     LocalVersion |-> 0, LastHash |-> NoHash]

\* the configurations: one or two entries with different paths
MigrateConfigs ==
    {<<MigrateEntry(p, ps)>> : p \in MigratePaths, ps \in BOOLEAN}
    \cup {<<MigrateEntry(p, ps1), MigrateEntry(q, ps2)>> :
             p \in MigratePaths, q \in MigratePaths, ps1 \in BOOLEAN, ps2 \in BOOLEAN}

RECURSIVE LegacyStore(_, _, _, _)
\* the flat layout holding the entries of `stored`, with a manifest record
\* under the legacy key for those of `keyed`
LegacyStore(entries, stored, keyed, st) ==
    IF entries = <<>> THEN st
    ELSE LET e == Head(entries)
             i == Len(st.seen) + 1
             st1 == [mf |-> IF i \in keyed
                            THEN PutEntry(st.mf, LegacyManifestKey(e),
                                          [Version |-> 1, ContentHash |-> ByteA])
                            ELSE st.mf,
                     files |-> IF i \in stored
                               THEN PutFile(st.files, LegacyRepoDir(e), FileNode(ByteA))
                               ELSE st.files,
                     seen |-> Append(st.seen, e)]
         IN  LegacyStore(Tail(entries), stored, keyed, st1)

InitMigrate ==
    /\ \E entries \in MigrateConfigs, profile \in Profiles :
       \E stored \in SUBSET (1..Len(entries)) :
       \E keyed \in SUBSET stored :
          /\ Len(entries) = 2 => entries[1].Path # entries[2].Path
          /\ cfg = [Entries |-> entries, DeviceProfile |-> profile]
          /\ LET st == LegacyStore(entries, stored, keyed,
                                   [mf |-> EmptyManifest, files |-> NoFiles, seen |-> <<>>])
             IN  repo = [mf |-> st.mf, files |-> st.files, dirty |-> FALSE, behind |-> FALSE]
    /\ fs = [p \in {PathFile, PathDir} |-> NoNode]
    /\ batches = [b \in 1..MaxBatches |-> NoBatch]
    /\ remote = EmptyRemote
    /\ ui = [currentView |-> "backup"]
    /\ syncs = NoSyncs
    /\ msgs = {}
    /\ results = <<>>
    /\ restoredOk = {}

\* one call of storage.MigrateLegacyLayout(cfg, mf) on the clone
MigrateRun ==
    /\ Len(results) < MaxRuns
    /\ LET mig == MigrateLegacyLayout(cfg, repo)
       IN  /\ repo' = [repo EXCEPT !.mf = mig.mf, !.files = mig.files,
                                   !.dirty = repo.dirty \/ mig.migrated > 0]
           /\ results' = Append(results, mig.migrated)
    /\ UNCHANGED <<cfg, fs, remote, ui, syncs, batches, msgs, restoredOk>>

NextMigrate == MigrateRun

SpecMigrate == InitMigrate /\ [][NextMigrate]_vars

\* C20: a migration run on a repository and manifest that a previous run
\* has already migrated moves nothing, rewrites no manifest key and returns
\* a migrated count of 0.
C20_MigrationIdempotent ==
    [][(Len(results) >= 1 /\ Len(results') = Len(results) + 1)
          => /\ repo'.files = repo.files
             /\ repo'.mf = repo.mf
             /\ results'[Len(results')] = 0]_vars

\* what one migration run must do for entry e: moved and re-keyed when
\* the legacy flat path holds content and the routed path holds none,
\* untouched otherwise
MigratedAsSpecified(e) ==
    LET legacyRel == LegacyRepoDir(e)
        newRel == RepoDir(e, cfg.DeviceProfile)
        legacyKey == LegacyManifestKey(e)
        newKey == ManifestKey(e, cfg.DeviceProfile)
    IN  IF /\ FileAt(repo.files, legacyRel).kind # "none"
           /\ FileAt(repo.files, newRel).kind = "none"
        THEN /\ FileAt(repo'.files, newRel) = FileAt(repo.files, legacyRel)
             /\ FileAt(repo'.files, legacyRel).kind = "none"
             /\ legacyKey \notin DOMAIN repo'.mf
             /\ legacyKey \in DOMAIN repo.mf
                   => GetEntry(repo'.mf, newKey) = repo.mf[legacyKey]
        ELSE /\ FileAt(repo'.files, legacyRel) = FileAt(repo.files, legacyRel)
             /\ FileAt(repo'.files, newRel) = FileAt(repo.files, newRel)
             /\ GetEntry(repo'.mf, legacyKey) = GetEntry(repo.mf, legacyKey)
             /\ GetEntry(repo'.mf, newKey) = GetEntry(repo.mf, newKey)

\* C21: a migration run moves every entry that has content at the legacy
\* flat path and none at the routed path to the routed location and
\* rewrites its record from the legacy key to the routed key, version and
\* hash preserved, leaving nothing at the legacy path or key; every other
\* entry keeps its directories and manifest records unchanged.
C21_MigrationEffect ==
    [][Len(results') = Len(results) + 1
          => \A i \in DOMAIN cfg.Entries : MigratedAsSpecified(cfg.Entries[i])]_vars

(***************************************************************************)
(* SpecMigrateSync: the backup view's refresh with the migration pre-step, *)
(* on a device whose clone and remote are in the flat legacy layout.  The  *)
(* MkdirAll or Rename of one entry may fail (failAt: the entry's position, *)
(* 0 for none).  results holds what MigrateLegacyLayout returned.  No      *)
(* other device pushes, so the refresh never finds a conflict to warn of.  *)
(***************************************************************************)
RECURSIVE MigrateFromFailing(_, _, _, _, _)
\* storage.MigrateLegacyLayout's loop from entry i on, with the error
\* return of os.MkdirAll / os.Rename at entry failAt; st = [mf, files,
\* migrated, err]
MigrateFromFailing(i, entries, profile, st, failAt) ==
    IF i > Len(entries) THEN st
    ELSE LET e == entries[i]
             legacyRel == LegacyRepoDir(e)
             newRel == RepoDir(e, profile)
             legacyKey == LegacyManifestKey(e)
             newKey == ManifestKey(e, profile)
         IN  IF FileAt(st.files, legacyRel).kind = "none"
             THEN MigrateFromFailing(i + 1, entries, profile, st, failAt)
             ELSE IF FileAt(st.files, newRel).kind # "none"
             THEN MigrateFromFailing(i + 1, entries, profile, st, failAt)
             ELSE IF i = failAt
             THEN [st EXCEPT !.err = TRUE]
             ELSE MigrateFromFailing(i + 1, entries, profile,
                    [mf |-> IF legacyKey \in DOMAIN st.mf
                            THEN DeleteEntry(PutEntry(st.mf, newKey, st.mf[legacyKey]),
                                             legacyKey)
                            ELSE st.mf,
                     files |-> PutFile(PutFile(st.files, newRel,
                                               FileAt(st.files, legacyRel)),
                                       legacyRel, NoNode),
                     migrated |-> st.migrated + 1,
                     err |-> FALSE],
                    failAt)

\* handleRepoSyncDone, the migration's error return included: the manifest
\* is saved only if err == nil && migrated > 0
HandleRepoSyncDoneMigrating(ok, failAt) ==
    /\ syncs.backup > 0
    /\ ok => CanPull(repo)
    /\ ~ok => failAt = 0
    /\ syncs' = [syncs EXCEPT !.backup = @ - 1]
    /\ IF ~ok
       THEN /\ ui' = [ui EXCEPT !.errMsg = "sync failed", !.progressDone = TRUE]
            /\ UNCHANGED <<repo, batches, results>>
       ELSE LET r1 == Pulled(repo, remote)
                mig == MigrateFromFailing(1, cfg.Entries, cfg.DeviceProfile,
                          [mf |-> r1.mf, files |-> r1.files, migrated |-> 0,
                           err |-> FALSE], failAt)
                r2 == [r1 EXCEPT !.mf = IF ~mig.err /\ mig.migrated > 0
                                        THEN mig.mf ELSE r1.mf,
                                 !.files = mig.files,
                                 !.dirty = r1.dirty \/ mig.files # r1.files]
                conflicts == checkBackupConflicts(cfg, r2.mf)
            IN  /\ failAt # 0 => mig.err
                /\ repo' = r2
                /\ results' = <<[migrated |-> mig.migrated, err |-> mig.err]>>
                /\ IF conflicts # {} /\ ~ui.backupConfirmed
                   THEN /\ ui' = [ui EXCEPT !.backupConflicts = conflicts]
                        /\ UNCHANGED batches
                   ELSE /\ CanStart
                        /\ ui' = runBackup(ui, cfg, FreeChannel)
                        /\ batches' = [batches EXCEPT ![FreeChannel] =
                                NewBatch("backup", cfg.Entries, cfg.DeviceProfile)]
    /\ UNCHANGED <<cfg, fs, remote, msgs, restoredOk>>

SyncPaths == <<(<<"~", "f">>), (<<"~", "g">>)>>

InitMigrateSync ==
    /\ \E ps1 \in BOOLEAN, ps2 \in BOOLEAN :
       \E stored \in SUBSET {1, 2} :
       \E keyed \in SUBSET stored :
          LET entries == <<MigrateEntry(SyncPaths[1], ps1), MigrateEntry(SyncPaths[2], ps2)>>
              st == LegacyStore(entries, stored, keyed,
                                [mf |-> EmptyManifest, files |-> NoFiles, seen |-> <<>>])
          IN  /\ cfg = [Entries |-> entries, DeviceProfile |-> "work"]
              /\ repo = [mf |-> st.mf, files |-> st.files, dirty |-> FALSE, behind |-> FALSE]
              /\ remote = [mf |-> st.mf, files |-> st.files]
    /\ fs = [p \in {SyncPaths[1], SyncPaths[2]} |-> FileNode(ByteA)]
    /\ batches = [b \in 1..MaxBatches |-> NoBatch]
    /\ ui = InitialModel
    /\ syncs = NoSyncs
    /\ msgs = {}
    /\ results = <<>>
    /\ restoredOk = {}

NextMigrateSync ==
    \/ MenuBackup
    \/ \E ok \in BOOLEAN, failAt \in 0..2 : HandleRepoSyncDoneMigrating(ok, failAt)
    \/ BackupKeyEsc
    \/ BackupKeyEnter
    \/ \E b \in Channels : BackupWorkerCopy(b)
    \/ \E b \in Channels : WorkerSend(b)
    \/ \E m \in msgs, pushOk \in BOOLEAN : HandleBackupProgress(m, pushOk)

SpecMigrateSync == InitMigrateSync /\ [][NextMigrateSync]_vars

\* this step's migration pass has moved entry e from its legacy location
\* in `before` to its routed location
MovedBy(e, before) ==
    /\ FileAt(before.files, LegacyRepoDir(e)).kind # "none"
    /\ FileAt(repo'.files, LegacyRepoDir(e)).kind = "none"
    /\ FileAt(repo'.files, RepoDir(e, cfg.DeviceProfile))
          = FileAt(before.files, LegacyRepoDir(e))

\* C36: whenever the migration pre-step of a backup has moved an entry's
\* directory to its routed location, the manifest the step leaves on disk
\* holds the entry's record under the routed key and no longer under the
\* legacy key, also when a later entry's migration failed.
C36_MovedEntryRekeyed ==
    [][(syncs'.backup = syncs.backup - 1 /\ results' # results) =>
          LET before == Pulled(repo, remote)
          IN  \A i \in DOMAIN cfg.Entries :
                 LET e == cfg.Entries[i]
                     legacyKey == LegacyManifestKey(e)
                     newKey == ManifestKey(e, cfg.DeviceProfile)
                 IN  (MovedBy(e, before) /\ legacyKey \in DOMAIN before.mf)
                        => /\ legacyKey \notin DOMAIN repo'.mf
                           /\ GetEntry(repo'.mf, newKey) = before.mf[legacyKey]]_vars

(***************************************************************************)
(* SpecHash: hash.HashDir applied to a directory tree of up to two regular *)
(* files, then to the tree after one of its files has been renamed.  The   *)
(* root may be missing or impossible to list, a file may be unreadable.    *)
(* results holds the [err, hash] of each call.                             *)
(***************************************************************************)
MaxNameLen == 3

\* relative paths: the byte strings over "a", "b" of up to MaxNameLen bytes
HashNames ==
    UNION {[1..n -> {97, 98}] : n \in 1..MaxNameLen}

HashContents == {<<>>, ByteA}

\* the regular files a tree can hold
HashMembers ==
    {[name |-> n, typ |-> "reg", data |-> d, ok |-> o] :
        n \in HashNames, d \in HashContents, o \in BOOLEAN}

\* trees of one or two files with different names, at most one unreadable;
\* the same trees behind a root that cannot be listed; no directory at all
HashTrees ==
    LET sets == {{f} : f \in HashMembers}
                \cup {{f, g} : f \in HashMembers,
                               g \in {h \in HashMembers : h.ok}}
        good == {S \in sets : \A f \in S, g \in S : f.name = g.name => f = g}
    IN  {DirNode(S) : S \in good}
        \cup {[DirNode({f}) EXCEPT !.ok = FALSE] : f \in {h \in HashMembers : h.ok}}
        \cup {NoNode}

InitHash ==
    /\ fs \in [{PathDir} -> HashTrees]
    /\ cfg = [Entries |-> <<FreshEntry(TRUE, FALSE)>>, DeviceProfile |-> ""]
    /\ repo = [mf |-> EmptyManifest, files |-> NoFiles, dirty |-> FALSE, behind |-> FALSE]
    /\ remote = EmptyRemote
    /\ ui = [currentView |-> "none"]
    /\ syncs = NoSyncs
    /\ batches = [b \in 1..MaxBatches |-> NoBatch]
    /\ msgs = {}
    /\ results = <<>>
    /\ restoredOk = {}

\* hash.HashDir on the tracked directory
HashTree ==
    /\ results = <<>>
    /\ results' = <<HashDir(fs[PathDir])>>
    /\ UNCHANGED <<cfg, fs, repo, remote, ui, syncs, batches, msgs, restoredOk>>

\* os.Rename of file f inside the directory to the unused name n, content
\* untouched, followed by hash.HashDir
RenameAndHash(f, n) ==
    /\ Len(results) = 1
    /\ fs[PathDir].kind = "dir" /\ fs[PathDir].ok
    /\ f \in fs[PathDir].files
    /\ n \in HashNames \ {g.name : g \in fs[PathDir].files}
    /\ fs' = [fs EXCEPT ![PathDir].files = (@ \ {f}) \cup {[f EXCEPT !.name = n]}]
    /\ results' = Append(results, HashDir(fs'[PathDir]))
    /\ UNCHANGED <<cfg, repo, remote, ui, syncs, batches, msgs, restoredOk>>

NextHash ==
    \/ HashTree
    \/ \E f \in HashMembers, n \in HashNames : RenameAndHash(f, n)

SpecHash == InitHash /\ [][NextHash]_vars

\* C25: renaming a file inside a hashed directory, every file's content
\* unchanged, changes the directory's digest.
C25_RenameChangesDigest ==
    [][(Len(results) = 1 /\ Len(results') = 2)
          => results'[2].hash # results[1].hash]_vars

\* C26: hashing a directory does not fail because one of its files cannot
\* be read, and fails with an error when the root directory itself cannot
\* be opened.
C26_HashFailurePolicy ==
    \A i \in DOMAIN results :
        i = 1 =>
           /\ (fs[PathDir].kind = "dir" /\ fs[PathDir].ok) => ~results[i].err
           /\ (fs[PathDir].kind = "none" \/ ~fs[PathDir].ok) => results[i].err

(***************************************************************************)
(* SpecRoundTrip: a directory holding a symlink is hashed, backed up into  *)
(* the clone, restored from it and hashed again.  The clone may hold an    *)
(* older backup of the directory, and the restore may write onto the       *)
(* original, onto nothing (another machine) or onto an older copy.         *)
(* ui.stage is the position in the sequence, results the [hash, node] of   *)
(* each hashing.                                                           *)
(***************************************************************************)
Sym(n, target) == [name |-> n, typ |-> "symlink", data |-> target, ok |-> TRUE]

\* trees with a symlink and possibly a regular file or a second symlink
\* beside it
LinkTrees ==
    {DirNode({Sym(n, t)}) : n \in {ByteA, ByteB}, t \in {ByteA, ByteB}}
    \cup {DirNode({Sym(ByteA, t), Reg(ByteB, d)}) :
             t \in {ByteA, ByteB}, d \in {<<>>, ByteA, ByteB}}
    \cup {DirNode({Sym(ByteA, t), Sym(ByteB, u)}) :
             t \in {ByteA, ByteB}, u \in {ByteA, ByteB}}

\* what a destination can hold before the copy of `tree`: nothing, or an
\* older state of the same names (a link elsewhere, a regular file)
OlderCopies(tree) ==
    {NoNode}
    \cup {DirNode({Sym(f.name, ByteB) : f \in tree.files})}
    \cup {DirNode({Reg(f.name, ByteA) : f \in tree.files})}

RoundTripEntry == FreshEntry(TRUE, FALSE)
RoundTripDir == RepoDir(RoundTripEntry, "")

InitRoundTrip ==
    /\ \E tree \in LinkTrees :
       \E old \in OlderCopies(tree) :
          /\ fs = [p \in {PathDir} |-> tree]
          /\ repo = [mf |-> EmptyManifest, files |-> PutFile(NoFiles, RoundTripDir, old),
                     dirty |-> FALSE, behind |-> FALSE]
    /\ cfg = [Entries |-> <<RoundTripEntry>>, DeviceProfile |-> ""]
    /\ remote = EmptyRemote
    /\ ui = [stage |-> "start"]
    /\ syncs = NoSyncs
    /\ batches = [b \in 1..MaxBatches |-> NoBatch]
    /\ msgs = {}
    /\ results = <<>>
    /\ restoredOk = {}

\* hash.HashEntry on the original
HashOriginal ==
    /\ ui.stage = "start"
    /\ results' = <<[hash |-> HashEntry(RoundTripEntry, fs[PathDir]).hash,
                     node |-> fs[PathDir]]>>
    /\ ui' = [stage |-> "hashed"]
    /\ UNCHANGED <<cfg, fs, repo, remote, syncs, batches, msgs, restoredOk>>

\* the backup engine's copy of the entry into the clone
BackupTree ==
    /\ ui.stage = "hashed"
    /\ LET c == CopyEntry(RoundTripEntry, fs[PathDir], FileAt(repo.files, RoundTripDir))
       IN  /\ ~c.err
           /\ repo' = [repo EXCEPT !.files = PutFile(@, RoundTripDir, c.node)]
    /\ ui' = [stage |-> "backed up"]
    /\ UNCHANGED <<cfg, fs, remote, syncs, batches, msgs, results, restoredOk>>

\* the restore engine's copy of the entry from the clone onto dst
RestoreTree(dst) ==
    /\ ui.stage = "backed up"
    /\ dst \in {fs[PathDir]} \cup OlderCopies(fs[PathDir])
    /\ LET c == CopyEntry(RoundTripEntry, FileAt(repo.files, RoundTripDir), dst)
       IN  /\ ~c.err
           /\ fs' = [fs EXCEPT ![PathDir] = c.node]
    /\ ui' = [stage |-> "restored"]
    /\ UNCHANGED <<cfg, repo, remote, syncs, batches, msgs, results, restoredOk>>

\* hash.HashEntry on the restored directory
HashRestored ==
    /\ ui.stage = "restored"
    /\ results' = Append(results, [hash |-> HashEntry(RoundTripEntry, fs[PathDir]).hash,
                                   node |-> fs[PathDir]])
    /\ ui' = [stage |-> "done"]
    /\ UNCHANGED <<cfg, fs, repo, remote, syncs, batches, msgs, restoredOk>>

NextRoundTrip ==
    \/ HashOriginal
    \/ BackupTree
    \/ \E tree \in LinkTrees : \E dst \in {tree} \cup OlderCopies(tree) : RestoreTree(dst)
    \/ HashRestored

SpecRoundTrip == InitRoundTrip /\ [][NextRoundTrip]_vars

PathOther == <<"~", "e">>

StreamNames == {ByteA, ByteB, ByteA \o ByteB, ByteB \o ByteA}

\* readable regular files and symlinks
StreamMembers ==
    {[name |-> n, typ |-> t, data |-> d, ok |-> TRUE] :
        n \in StreamNames, t \in {"reg", "symlink"}, d \in {<<>>, ByteA, ByteB}}

\* trees of one or two members with different names; a symlink has a
\* non-empty target
StreamTrees ==
    {DirNode(S) : S \in {T \in SUBSET StreamMembers :
                            /\ Cardinality(T) \in {1, 2}
                            /\ \A f \in T : f.typ = "symlink" => f.data # <<>>
                            /\ \A f \in T, g \in T : f.name = g.name => f = g}}

InitStream ==
    /\ fs \in [{PathDir, PathOther} -> StreamTrees]
    /\ cfg = [Entries |-> <<FreshEntry(TRUE, FALSE)>>, DeviceProfile |-> ""]
    /\ repo = [mf |-> EmptyManifest, files |-> NoFiles, dirty |-> FALSE, behind |-> FALSE]
    /\ remote = EmptyRemote
    /\ ui = [currentView |-> "none"]
    /\ syncs = NoSyncs
    /\ batches = [b \in 1..MaxBatches |-> NoBatch]
    /\ msgs = {}
    /\ results = <<>>
    /\ restoredOk = {}

\* hash.HashDir on each of the two directories
HashBoth ==
    /\ results = <<>>
    /\ results' = <<HashDir(fs[PathDir]), HashDir(fs[PathOther])>>
    /\ UNCHANGED <<cfg, fs, repo, remote, ui, syncs, batches, msgs, restoredOk>>

NextStream == HashBoth

SpecStream == InitStream /\ [][NextStream]_vars

\* C40: two directory trees that differ in the set of relative paths, in a
\* regular file's bytes or in a symlink's target never feed the same byte
\* stream to the hash function (never get the same digest).
C40_StreamDeterminesContent ==
    (Len(results) = 2 /\ fs[PathDir].files # fs[PathOther].files)
        => results[1].hash # results[2].hash

(***************************************************************************)
(* SpecWalk: hash.HashDir with the enumeration order of the walk made      *)
(* explicit.  The tree is hashed twice, each time under an enumeration     *)
(* order of its members chosen freely; results holds the two [err, hash].  *)
(***************************************************************************)
\* variant of SortStrings: the collected paths are used as enumerated
KeepOrder(names) == names

\* sort.Strings on the collected paths (distinct, one common root prefix)
SortStrings(names) == SortNames({names[i] : i \in DOMAIN names})

RECURSIVE Collect(_, _)
\* the names the walk callback appends, in enumeration order, for the
\* members of one type
Collect(order, typ) ==
    IF order = <<>> THEN <<>>
    ELSE (IF Head(order).typ = typ THEN <<Head(order).name>> ELSE <<>>)
            \o Collect(Tail(order), typ)

\* hash.HashDir when WalkDir enumerates the members in the given order
HashDirWalk(node, order) ==
    LET listed == IF node.kind = "dir" /\ node.ok THEN order ELSE <<>>
        files == Collect(listed, "reg")
        symlinks == Collect(listed, "symlink")
    IN  [err |-> FALSE,
         hash |-> Sha256(FeedFiles(SortStrings(files), node.files)
                    \o FeedSymlinks(SortStrings(symlinks), node.files))]

\* the enumeration orders of a set of members
WalkOrders(S) ==
    {o \in [1..Cardinality(S) -> S] : \A i, j \in DOMAIN o : o[i] = o[j] => i = j}

WalkNames == {ByteA, ByteB, ByteA \o ByteB}

\* regular files, symlinks and special files; a regular file may be
\* unreadable
WalkMembers ==
    {[name |-> n, typ |-> t, data |-> d, ok |-> TRUE] :
        n \in WalkNames, t \in {"reg", "symlink"}, d \in {ByteA, ByteB}}
    \cup {[name |-> n, typ |-> "reg", data |-> ByteA, ok |-> FALSE] : n \in WalkNames}
    \cup {[name |-> n, typ |-> "special", data |-> <<>>, ok |-> TRUE] : n \in WalkNames}

\* trees of two or three members with different names
WalkTrees ==
    {DirNode(S) : S \in {T \in SUBSET WalkMembers :
                            /\ Cardinality(T) \in {2, 3}
                            /\ \A f \in T, g \in T : f.name = g.name => f = g}}

InitWalk ==
    /\ fs \in [{PathDir} -> WalkTrees]
    /\ cfg = [Entries |-> <<FreshEntry(TRUE, FALSE)>>, DeviceProfile |-> ""]
    /\ repo = [mf |-> EmptyManifest, files |-> NoFiles, dirty |-> FALSE, behind |-> FALSE]
    /\ remote = EmptyRemote
    /\ ui = [currentView |-> "none"]
    /\ syncs = NoSyncs
    /\ batches = [b \in 1..MaxBatches |-> NoBatch]
    /\ msgs = {}
    /\ results = <<>>
    /\ restoredOk = {}

\* hash.HashDir on the tracked directory, the walk enumerating in `order`
HashInOrder(order) ==
    /\ Len(results) < 2
    /\ order \in WalkOrders(fs[PathDir].files)
    /\ results' = Append(results, HashDirWalk(fs[PathDir], order))
    /\ UNCHANGED <<cfg, fs, repo, remote, ui, syncs, batches, msgs, restoredOk>>

NextWalk == \E order \in WalkOrders(fs[PathDir].files) : HashInOrder(order)

SpecWalk == InitWalk /\ [][NextWalk]_vars

\* C31: hashing the same unmodified directory tree twice yields the same
\* digest, whatever order the traversal enumerates the members in; it is
\* the digest of the order-free definition HashDir.
C31_OrderIndependent ==
    \A i \in DOMAIN results :
        /\ results[i] = results[1]
        /\ results[i] = HashDir(fs[PathDir])

\* a tree holding two regular files and a symlink has been hashed twice
C31_Witness ==
    /\ Len(results) = 2
    /\ Cardinality({f \in fs[PathDir].files : f.typ = "reg"}) = 2
    /\ \E f \in fs[PathDir].files : f.typ = "symlink"

(***************************************************************************)
(* Claims about the conflict analyzer (checked under SpecAnalyzer).        *)
(* For result i: the entry, the node at its path, its local hash, and mv,  *)
(* the manifest record the analyzer obtained for it.                       *)
(***************************************************************************)
ResEntry(i) == results[i].Entry
ResNode(i) == fs[ResEntry(i).Path]
ResHash(i) == HashEntry(ResEntry(i), ResNode(i))
ResMv(i) == AnalyzerRecord(ResEntry(i), repo.mf)
ResLocalModified(i) == ResHash(i).hash # ResEntry(i).LastHash
ResRepoNewer(i) == ResMv(i).Version > ResEntry(i).LocalVersion
ResHashable(i) == ~ResHash(i).err
Analysed == DOMAIN results

\* C1: for a hashable entry with a remembered hash, the state is Clean when
\* neither local_modified nor repo_newer holds, ModifiedLocal when only
\* local_modified holds, and Conflict when both hold.
C1_FourWay ==
    \A i \in Analysed :
        (ResHashable(i) /\ ResEntry(i).LastHash # NoHash) =>
            /\ (~ResLocalModified(i) /\ ~ResRepoNewer(i)) => results[i].State = StateClean
            /\ (ResLocalModified(i) /\ ~ResRepoNewer(i)) => results[i].State = StateModifiedLocal
            /\ (ResLocalModified(i) /\ ResRepoNewer(i)) => results[i].State = StateConflict

C1_Witness ==
    \E i \in Analysed :
        /\ ResHashable(i) /\ ResEntry(i).LastHash # NoHash
        /\ ResLocalModified(i) /\ ResRepoNewer(i)
        /\ results[i].State = StateConflict

\* the case of C2: remembered hash, local content unchanged, repo newer
C2_Case(i) ==
    /\ ResHashable(i) /\ ResEntry(i).LastHash # NoHash
    /\ ~ResLocalModified(i) /\ ResRepoNewer(i)

\* C2 as stated: with a remembered hash, local unchanged and the manifest
\* version ahead, the state is Clean if the manifest's hash equals the local
\* hash and NewerInRepo otherwise.
C2_Original ==
    \A i \in Analysed :
        C2_Case(i) =>
            results[i].State =
                IF ResMv(i).ContentHash = ResHash(i).hash
                THEN StateClean ELSE StateNewerInRepo

\* C2 amended: in that case the state is NewerInRepo if the manifest record
\* holds a non-empty hash that differs from the local hash, and Clean
\* otherwise (equal hash, or no hash recorded).
C2_Amended ==
    \A i \in Analysed :
        C2_Case(i) =>
            results[i].State =
                IF ResMv(i).ContentHash # NoHash /\ ResMv(i).ContentHash # ResHash(i).hash
                THEN StateNewerInRepo ELSE StateClean

C2_Witness ==
    \E i \in Analysed :
        /\ C2_Case(i)
        /\ ResMv(i).ContentHash # NoHash
        /\ ResMv(i).ContentHash # ResHash(i).hash
        /\ results[i].State = StateNewerInRepo

\* C3: an entry whose local path does not exist or cannot be hashed is
\* classified Clean, whether it is a file or a directory entry.
C3_MissingIsClean ==
    \A i \in Analysed :
        (ResNode(i).kind = "none" \/ ~ResNode(i).ok \/ ResHash(i).err) =>
            results[i].State = StateClean

\* the case of C4: hashable entry without a remembered hash
C4_Case(i) == ResHashable(i) /\ ResEntry(i).LastHash = NoHash

\* C4 as stated: without a remembered hash, if a manifest record exists and
\* its hash differs from the local hash the state is Conflict when the
\* manifest version is ahead and ModifiedLocal otherwise; else Clean.
C4_Original ==
    \A i \in Analysed :
        C4_Case(i) =>
            results[i].State =
                IF /\ ResMv(i).Version > 0
                   /\ ResMv(i).ContentHash # ResHash(i).hash
                THEN (IF ResRepoNewer(i) THEN StateConflict ELSE StateModifiedLocal)
                ELSE StateClean

\* C4 amended: the same with "a manifest record exists" read as "the
\* manifest record holds a non-empty content hash".
C4_Amended ==
    \A i \in Analysed :
        C4_Case(i) =>
            results[i].State =
                IF /\ ResMv(i).ContentHash # NoHash
                   /\ ResMv(i).ContentHash # ResHash(i).hash
                THEN (IF ResRepoNewer(i) THEN StateConflict ELSE StateModifiedLocal)
                ELSE StateClean

C4_Witness ==
    \E i \in Analysed :
        /\ C4_Case(i)
        /\ ResMv(i).ContentHash # NoHash
        /\ ResMv(i).ContentHash # ResHash(i).hash
        /\ ~ResRepoNewer(i)
        /\ results[i].State = StateModifiedLocal

\* C5: the analyzer's repo_hash and repo_version are those of the manifest
\* record under the entry's routed storage key, the key a backup bumps.
C5_RoutedKeyLookup ==
    \A i \in Analysed :
        LET routed == GetEntry(repo.mf, ManifestKey(ResEntry(i), cfg.DeviceProfile))
        IN  /\ results[i].RepoHash = routed.ContentHash
            /\ results[i].State = Classify(ResEntry(i), routed, ResNode(i))

====
